---- MODULE Spec2Model ----
(***************************************************************************)
(* State-machine model of fplay.c: the chunked transfer loops (pcm_write,  *)
(* pcm_writev, pcm_read, pcm_readv), the fault recovery (xrun, suspend),   *)
(* the playback and capture drivers, the capture file series               *)
(* (new_capture_file, mystrftime) and the two asynchronous triggers        *)
(* (signal_handler, signal_handler_recycle).                               *)
(*                                                                         *)
(* Bytes are modelled as integers.  The silence pattern of the format is   *)
(* the byte Silence.  The i-th byte of a source file of channel ch is      *)
(* SrcByte(ch, i) and the i-th byte produced by a capturing device is i,   *)
(* so that loss, duplication and reordering are visible.                   *)
(* File names are sequences of one-character strings.                      *)
(***************************************************************************)
EXTENDS Integers, Sequences, FiniteSets, TLC

(***************************************************************************)
(* Bounds of the model.                                                    *)
(***************************************************************************)
\* longest playback source, in bytes
MaxLen == 4
\* largest negotiated period size, in frames
MaxChunk == 2
\* device faults (-EPIPE, -ESTRPIPE) injected per run
MaxFaults == 1
\* SIGUSR1 deliveries per run of Spec
MaxRecycle == 1
\* file arguments of one run
MaxFiles == 2
\* SIGUSR1 deliveries per run of SpecFiles
MaxRotations == 2
\* files another process removes per run of SpecFiles
MaxExtRemove == 1
\* wall-clock seconds that may pass during a run
MaxClock == 1
\* largest -s sample limit
MaxLimit == 3
\* bytes a capturing device delivers before it stalls
MaxCapture == 6
\* times in a row a suspended device answers -EAGAIN to snd_pcm_resume
MaxSleeps == 2
\* most suspicious positions the monitor counts, and most statistics
\* samples it accumulates
MaxSuspicious == 2
MaxSamples == 2
\* largest reading the monitor's queries answer, beyond the envelope of
\* these streams
MaxReading == 13
\* most samples in a chunk handed to the peak meter alone
MaxPeakLen == 2
\* most keys typed during a transfer
MaxKeys == 3
\* largest -r sample rate, in frames per second
MaxRate == 3
\* largest -d duration limit, in seconds
MaxTime == 2

(***************************************************************************)
(* Program constants.                                                      *)
(***************************************************************************)
\* off64_t maximum; TLC integers are 32 bit wide, the model uses their maximum
LLONG_MAX == 2147483647
EXIT_SUCCESS == 0
EXIT_FAILURE == 1
EAGAIN == 11
EPIPE == 32
ESTRPIPE == 86
EIO == 5
Silence == 0
\* content of memory that no request has written (malloc/realloc)
Junk == 0 - 1
NUL == "NUL"

Min(a, b) == IF a < b THEN a ELSE b

(***************************************************************************)
(* Strings: a file name is a sequence of one-character strings.            *)
(***************************************************************************)
DigitChar == <<"0", "1", "2", "3", "4", "5", "6", "7", "8", "9">>

RECURSIVE Decimal(_)
\* printf("%d") of a natural number
Decimal(n) ==
    IF n < 10 THEN <<DigitChar[n + 1]>>
    ELSE Decimal(n \div 10) \o <<DigitChar[(n % 10) + 1]>>

\* printf("%02d") / printf("%02i") of a natural number
Fmt02(n) == IF n < 10 THEN <<"0">> \o Decimal(n) ELSE Decimal(n)

\* the character at C index i of the NUL-terminated string str
CharAt(str, i) == IF i < Len(str) THEN str[i + 1] ELSE NUL

\* the C string that starts at index i of str
StrFrom(str, i) == SubSeq(str, i + 1, Len(str))

\* the C string str cut by a NUL written at index i
StrUpTo(str, i) == SubSeq(str, 1, i)

(***************************************************************************)
(* strftime(3) of the C library, for the conversions the model uses: %S is *)
(* the second of the clock as two digits, %% is a percent sign; any other  *)
(* conversion, and a lone trailing %, is copied as it is.                  *)
(***************************************************************************)
RECURSIVE StrftimeFrom(_, _, _)
StrftimeFrom(format, i, tm) ==
    IF i >= Len(format) THEN <<>>
    ELSE IF CharAt(format, i) = "%" /\ CharAt(format, i + 1) = "S"
         THEN Fmt02(tm % 60) \o StrftimeFrom(format, i + 2, tm)
    ELSE IF CharAt(format, i) = "%" /\ CharAt(format, i + 1) = "%"
         THEN <<"%">> \o StrftimeFrom(format, i + 2, tm)
    ELSE <<CharAt(format, i)>> \o StrftimeFrom(format, i + 1, tm)

strftime(format, tm) == StrftimeFrom(format, 0, tm)

(***************************************************************************)
(* mystrftime: the loop over userformat that builds formatstring, then the *)
(* call of strftime.  The result is the string written to s; the C         *)
(* function returns its length.                                            *)
(***************************************************************************)
RECURSIVE FormatString(_, _, _)
FormatString(userformat, pos, filenumber) ==
    IF pos >= Len(userformat) THEN <<>>
    ELSE IF CharAt(userformat, pos) = "%"
         THEN IF CharAt(userformat, pos + 1) = NUL
              THEN \* end of string: the % itself is copied
                   <<"%">> \o FormatString(userformat, pos + 1, filenumber)
              ELSE IF CharAt(userformat, pos + 1) = "v"
              THEN Fmt02(filenumber)
                       \o FormatString(userformat, pos + 2, filenumber)
              ELSE <<"%", CharAt(userformat, pos + 1)>>
                       \o FormatString(userformat, pos + 2, filenumber)
    ELSE <<CharAt(userformat, pos)>>
             \o FormatString(userformat, pos + 1, filenumber)

\* a mystrftime that numbers the files from zero
mystrftime_zero_based(userformat, tm, filenumber) ==
    strftime(FormatString(userformat, 0, filenumber - 1), tm)

mystrftime(userformat, tm, filenumber) ==
    strftime(FormatString(userformat, 0, filenumber), tm)

(***************************************************************************)
(* new_capture_file.  ExtStart is the loop that separates the extension:   *)
(* s walks back from the terminating NUL while s > buf and *s is neither   *)
(* '.' nor '/'.                                                            *)
(***************************************************************************)
RECURSIVE ExtScan(_, _)
ExtScan(buf, s) ==
    IF s > 0 /\ CharAt(buf, s) # "." /\ CharAt(buf, s) # "/"
    THEN ExtScan(buf, s - 1)
    ELSE s

\* buf after "*s++ = 0" (the stem) and the string s points to (the extension)
SplitExt(name) ==
    LET s == ExtScan(name, Len(name)) IN
    IF CharAt(name, s) = "."
    THEN [buf |-> StrUpTo(name, s), s |-> StrFrom(name, s + 1)]
    ELSE IF CharAt(name, s) = "/"
    THEN [buf |-> name, s |-> <<>>]
    ELSE [buf |-> name, s |-> StrFrom(name, s)]

\* a NumberedName that prints the count with "%i", without padding
NumberedName_unpadded(name, filecount) ==
    LET p == SplitExt(name) IN
    IF p.s # <<>>
    THEN p.buf \o <<"-">> \o Decimal(filecount) \o <<".">> \o p.s
    ELSE p.buf \o <<"-">> \o Decimal(filecount)

\* snprintf(namebuf, namelen, "%s-%02i.%s" or "%s-%02i", buf, filecount, s)
NumberedName(name, filecount) ==
    LET p == SplitExt(name) IN
    IF p.s # <<>>
    THEN p.buf \o <<"-">> \o Fmt02(filecount) \o <<".">> \o p.s
    ELSE p.buf \o <<"-">> \o Fmt02(filecount)

\* a file count that the first call does not renumber
NextCount_same(filecount) == filecount

\* the file count new_capture_file goes on with: the first call renumbers
NextCount(filecount) == IF filecount = 1 THEN 2 ELSE filecount

(* The result of new_capture_file(name, namebuf, namelen, filecount) at    *)
(* clock tm: the name left in namebuf, the returned file count, whether    *)
(* the first file is renamed (and to what), whether the process exits.     *)
new_capture_file(name, filecount, tm, use_strftime) ==
    IF use_strftime
    THEN [namebuf |-> mystrftime(name, tm, filecount + 1),
          filecount |-> filecount,
          renamed |-> FALSE, first |-> <<>>,
          fatal |-> Len(mystrftime(name, tm, filecount + 1)) = 0]
    ELSE [namebuf |-> NumberedName(name, NextCount(filecount)),
          filecount |-> NextCount(filecount),
          renamed |-> (filecount = 1),
          first |-> NumberedName(name, 1),
          fatal |-> FALSE]

(***************************************************************************)
(* The state.                                                              *)
(*   opt     the command line: stream, interleaved, channels,              *)
(*           fatal_errors, use_strftime, timelimit, sampleslimit, rate,    *)
(*           max_file_time, name (the FILE argument), srclen (the length   *)
(*           of the playback source(s) in bytes)                           *)
(*   pc      the place the main flow is at                                 *)
(*   params  what set_params left: chunk_size, bits_per_frame,             *)
(*           chunk_bytes                                                   *)
(*   xf      the frame of the running transfer loop                        *)
(*   pb      the frame of playback_go / playbackv_go                       *)
(*   cap     the frame of capture / capturev_go                            *)
(*   dev     the bytes the playback device accepted, in order              *)
(*   devpos  the number of bytes the capture device delivered              *)
(*   fs      the directory: file name -> index into inodes                 *)
(*   dirs    the names of the directories that exist                       *)
(*   inodes  the contents of the files created so far                      *)
(*   handle  the device handle: "none" before snd_pcm_open, "open",        *)
(*           "closed" after snd_pcm_close, "null" when the pointer was     *)
(*           cleared while the device was open                             *)
(*   proc    the process and what it shares with the system: term_c_lflag  *)
(*           ("unset" for -1, or the mode saved: "icanon" or "raw"),       *)
(*           icanon (the terminal is in canonical mode), pidfile_written,  *)
(*           pidfile (the pid file exists), ended (how the process        *)
(*           ended), optind (the file argument main is at, from 1)         *)
(*   hist    history of the run, used only by the properties               *)
(***************************************************************************)
VARIABLES pc, exit_code, opt, mon, vu, paused, in_aborting, recycle_capture_file, sigdfl,
          handle, proc, params, audiobuf, srcpos, xf, pb, cap, dev, devpos,
          fs, dirs, inodes, now, hist

vars == <<pc, exit_code, opt, mon, vu, paused, in_aborting, recycle_capture_file, sigdfl,
          handle, proc, params, audiobuf, srcpos, xf, pb, cap, dev, devpos,
          fs, dirs, inodes, now, hist>>

sigvars == <<in_aborting, recycle_capture_file, sigdfl>>
filevars == <<fs, dirs, inodes, now>>

NoResult == 0 - 999
PcmStates == {"PREPARED", "RUNNING", "XRUN", "DRAINING", "SUSPENDED",
              "DISCONNECTED"}
AbortSignals == {"SIGINT", "SIGTERM", "SIGABRT"}

\* snd_pcm_format_physical_width of DEFAULT_FORMAT (U8)
bits_per_sample == opt.format.physical_width

\* snd_pcm_format_size(format, samples)
snd_pcm_format_size(samples) == (samples * bits_per_sample) \div 8

\* the i-th byte (from 1) of the source file of channel ch
SrcByte(ch, i) == 100 * ch + i

\* calc_count without the duration limit
calc_count_unlimited(o, pbrec_count) ==
    IF o.sampleslimit = 0 THEN pbrec_count
    ELSE Min(snd_pcm_format_size(o.sampleslimit * o.channels), pbrec_count)

calc_count(o, pbrec_count) ==
    LET count ==
            IF o.timelimit = 0
            THEN IF o.sampleslimit = 0
                 THEN pbrec_count
                 ELSE snd_pcm_format_size(o.sampleslimit * o.channels)
            ELSE snd_pcm_format_size(o.rate * o.channels) * o.timelimit
    IN  IF count < pbrec_count THEN count ELSE pbrec_count

(***************************************************************************)
(* init_stdin() and done_stdin() on the process record p.                  *)
(***************************************************************************)
\* "tcgetattr(stdin, &term); term_c_lflag = term.c_lflag; ...
\* term.c_lflag &= ~ICANON; tcsetattr(stdin, TCSANOW, &term);"
init_stdin(p) ==
    IF ~opt.interactive THEN p
    ELSE [p EXCEPT !.term_c_lflag = IF p.icanon THEN "icanon" ELSE "raw",
                   !.icanon = FALSE]

\* "term.c_lflag = term_c_lflag; tcsetattr(stdin, TCSANOW, &term);"
done_stdin(p) ==
    IF ~opt.interactive \/ p.term_c_lflag = "unset" THEN p
    ELSE [p EXCEPT !.icanon = (p.term_c_lflag = "icanon")]

(***************************************************************************)
(* prg_exit(code): the cleanup path.  done_stdin(), the device handle is   *)
(* closed if set, the pid file is removed if written, exit(code).          *)
(* prg_exit_from is prg_exit called with the process record p.             *)
(***************************************************************************)
prg_exit_proc(p) ==
    [done_stdin(p) EXCEPT !.pidfile = IF p.pidfile_written THEN FALSE ELSE @,
                          !.ended = "prg_exit"]

prg_exit_from(code, p) ==
    /\ pc' = "exited"
    /\ exit_code' = code
    /\ handle' = IF handle = "open" THEN "closed" ELSE handle
    /\ proc' = prg_exit_proc(p)

prg_exit(code) == prg_exit_from(code, proc)

(***************************************************************************)
(* set_params, as far as the transfer engine reads its result: the device  *)
(* reports the period and buffer sizes; equal sizes are refused.           *)
(***************************************************************************)
ParamsOf(period, buffer) ==
    [chunk_size |-> period,
     buffer_size |-> buffer,
     bits_per_frame |-> bits_per_sample * opt.channels,
     chunk_bytes |-> (period * (bits_per_sample * opt.channels)) \div 8]

\* the <<period size, buffer size>> pairs the device may report: a buffer
\* holds at least one period; unless opt.any_buffer the device reports a
\* buffer of one period or of period + 1 frames
Negotiable ==
    {pb_ \in (1..MaxChunk) \X (1..(MaxChunk + 1)) :
        /\ pb_[1] <= pb_[2]
        /\ opt.any_buffer \/ pb_[2] <= pb_[1] + 1}

\* a set_params that accepts every pair of sizes
set_params_accepts_all(period, buffer) == FALSE

set_params_refuses(period, buffer) == period = buffer

(***************************************************************************)
(* The transfer loops pcm_write, pcm_writev, pcm_read, pcm_readv.          *)
(* The frame xf holds: fn (which loop), rcount (the count argument), req   *)
(* (count after the prologue), count, result, data (the byte offset of the *)
(* cursor in audiobuf; the planar loops use result as the frame offset), r *)
(* (the last device result), ret (the value returned), and two history     *)
(* fields: xfer (frames the device transferred in this request) and nfault *)
(* (-EPIPE results in this request).                                       *)
(***************************************************************************)
NoXf == [fn |-> "none", rcount |-> 0, req |-> 0, count |-> 0, result |-> 0,
         data |-> 0, r |-> NoResult, ret |-> 0, xfer |-> 0, nfault |-> 0]

\* snd_pcm_format_set_silence over nbytes bytes from byte offset start
SetSilence(buf, start, nbytes) ==
    [i \in DOMAIN buf |->
        IF start < i /\ i <= start + nbytes THEN Silence ELSE buf[i]]

\* bytes of one channel's buffer in planar mode
vsize == params.chunk_bytes \div opt.channels

\* count after the prologue of pcm_write ("count < chunk_size")
pcm_write_count(count) ==
    IF count < params.chunk_size THEN params.chunk_size ELSE count

\* count after the prologue of pcm_writev, pcm_read, pcm_readv
\* ("count != chunk_size")
pcm_chunk_count(count) ==
    IF count # params.chunk_size THEN params.chunk_size ELSE count

\* audiobuf after the padding of pcm_write(audiobuf, count)
pcm_write_pad(buf, count) ==
    IF count < params.chunk_size
    THEN SetSilence(buf, (count * params.bits_per_frame) \div 8,
                    ((params.chunk_size - count) * opt.channels
                        * bits_per_sample) \div 8)
    ELSE buf

\* audiobuf after the padding of pcm_writev(bufs, channels, count), where
\* bufs[channel] = audiobuf + vsize * channel
pcm_writev_pad(buf, count) ==
    IF count # params.chunk_size
    THEN [i \in DOMAIN buf |->
            IF \E channel \in 0..(opt.channels - 1) :
                 LET start == vsize * channel
                                + (count * bits_per_sample) \div 8
                     nbytes == ((params.chunk_size - count)
                                   * bits_per_sample) \div 8
                 IN  start < i /\ i <= start + nbytes
            THEN Silence ELSE buf[i]]
    ELSE buf

XfBegin(fn, rcount) ==
    LET n == IF fn = "pcm_write" THEN pcm_write_count(rcount)
             ELSE pcm_chunk_count(rcount)
    IN  [fn |-> fn, rcount |-> rcount, req |-> n, count |-> n, result |-> 0,
         data |-> 0, r |-> NoResult, ret |-> 0, xfer |-> 0, nfault |-> 0]

IsPlanar(fn) == fn \in {"pcm_writev", "pcm_readv"}
IsWrite(fn) == fn \in {"pcm_write", "pcm_writev"}

\* a loop test that does not look at in_aborting
pcm_continue_ignoring_abort(x, aborting) == x.count > 0

\* "while (count > 0 && !in_aborting)" / "if (in_aborting) goto abort"
pcm_continue(x, aborting) == x.count > 0 /\ ~aborting

\* the value the loop returns: result in pcm_write and pcm_writev ...
pcm_write_return(x) == x.result
\* ... rcount in pcm_read and pcm_readv
pcm_read_return(x) == x.rcount

\* a loop that counts a frame for a device call that failed
pcm_advance_on_error(x, r) ==
    IF r # 0
    THEN [x EXCEPT !.result = @ + (IF r > 0 THEN r ELSE 1),
                   !.count = @ - (IF r > 0 THEN r ELSE 1),
                   !.data = IF IsPlanar(x.fn) THEN @
                            ELSE @ + ((IF r > 0 THEN r ELSE 1)
                                        * params.bits_per_frame) \div 8]
    ELSE x

\* "if (r > 0) { result += r; count -= r; data += r * bits_per_frame / 8; }"
\* (pcm_writev and pcm_readv have no cursor: offset = result)
\* the loop taking the whole remaining request as transferred on any
\* positive result
pcm_advance_whole(x, r) ==
    IF r > 0
    THEN [x EXCEPT !.result = @ + x.count,
                   !.count = 0,
                   !.data = IF IsPlanar(x.fn) THEN @
                            ELSE @ + (x.count * params.bits_per_frame) \div 8]
    ELSE x

pcm_advance(x, r) ==
    IF r > 0
    THEN [x EXCEPT !.result = @ + r,
                   !.count = @ - r,
                   !.data = IF IsPlanar(x.fn) THEN @
                            ELSE @ + (r * params.bits_per_frame) \div 8]
    ELSE x

\* the byte offset in audiobuf of byte i (from 0) of the r frames handed to
\* the device: data + i (interleaved), bufs[channel] + offset (planar)
\* every device call handing over the start of the buffer again
XferOffset_from_start(x, i) ==
    IF IsPlanar(x.fn)
    THEN LET bpf == params.bits_per_frame \div 8
             bps == bits_per_sample \div 8
         IN  vsize * ((i % bpf) \div bps) + (i \div bpf) * bps + (i % bps)
    ELSE i

XferOffset(x, i) ==
    IF IsPlanar(x.fn)
    THEN LET bpf == params.bits_per_frame \div 8
             bps == bits_per_sample \div 8
             f == i \div bpf
             channel == (i % bpf) \div bps
             b == i % bps
         IN  vsize * channel + (x.result + f) * bps + b
    ELSE x.data + i

\* the bytes the device takes from the buffers when it accepts r frames
DevTake(buf, x, r) ==
    [i \in 1..((r * params.bits_per_frame) \div 8) |->
        buf[XferOffset(x, i - 1) + 1]]

\* the buffers after the device delivered r frames, the bytes devpos + 1 ...
DevGive(buf, x, r, pos) ==
    [j \in DOMAIN buf |->
        IF \E i \in 1..((r * params.bits_per_frame) \div 8) :
               XferOffset(x, i - 1) + 1 = j
        THEN pos + (CHOOSE i \in 1..((r * params.bits_per_frame) \div 8) :
                        XferOffset(x, i - 1) + 1 = j)
        ELSE buf[j]]

(***************************************************************************)
(* xrun(): the outcome for a status query that succeeds or not, the state  *)
(* it reports and a prepare that succeeds or not.  log is the recovery     *)
(* line written ("" for none), exit is prg_exit(EXIT_FAILURE).             *)
(***************************************************************************)
\* xrun() re-priming the device before a fatal overrun or underrun ends
\* the process
xrun_fatal_reprimes(statusok, state, prepareok, o) ==
    IF statusok /\ state = "XRUN"
    THEN [exit |-> o.fatal_errors \/ ~prepareok,
          log |-> IF o.fatal_errors THEN "" ELSE "xrun", prepare |-> TRUE]
    ELSE IF statusok /\ state = "DRAINING" /\ o.stream = "CAPTURE"
    THEN [exit |-> ~prepareok, log |-> "draining", prepare |-> TRUE]
    ELSE [exit |-> TRUE, log |-> "", prepare |-> FALSE]

\* xrun() giving up on a capture device that reports DRAINING
xrun_draining_fatal(statusok, state, prepareok, o) ==
    IF statusok /\ state = "XRUN" /\ ~o.fatal_errors
    THEN [exit |-> ~prepareok, log |-> "xrun", prepare |-> TRUE]
    ELSE [exit |-> TRUE, log |-> "", prepare |-> FALSE]

\* xrun() going on after a status query that failed
xrun_ignores_status(statusok, state, prepareok, o) ==
    IF state = "XRUN"
    THEN IF o.fatal_errors
         THEN [exit |-> TRUE, log |-> "", prepare |-> FALSE]
         ELSE [exit |-> ~prepareok, log |-> "xrun", prepare |-> TRUE]
    ELSE IF state = "DRAINING" /\ o.stream = "CAPTURE"
    THEN [exit |-> ~prepareok, log |-> "draining", prepare |-> TRUE]
    ELSE [exit |-> TRUE, log |-> "", prepare |-> FALSE]

\* xrun() re-priming the device and returning whatever state it reports
xrun_any_state(statusok, state, prepareok, o) ==
    IF ~statusok \/ (state = "XRUN" /\ o.fatal_errors)
    THEN [exit |-> TRUE, log |-> "", prepare |-> FALSE]
    ELSE [exit |-> ~prepareok,
          log |-> IF state = "XRUN" THEN "xrun" ELSE "draining",
          prepare |-> TRUE]

xrun(statusok, state, prepareok, o) ==
    IF ~statusok
    THEN [exit |-> TRUE, log |-> "", prepare |-> FALSE]
    ELSE IF state = "XRUN"
    THEN IF o.fatal_errors
         THEN [exit |-> TRUE, log |-> "", prepare |-> FALSE]
         ELSE [exit |-> ~prepareok, log |-> "xrun", prepare |-> TRUE]
    ELSE IF state = "DRAINING" /\ o.stream = "CAPTURE"
    THEN [exit |-> ~prepareok, log |-> "draining", prepare |-> TRUE]
    ELSE [exit |-> TRUE, log |-> "", prepare |-> FALSE]

\* what a transfer loop does with the result r of a device call for count
\* frames: the if / else-if chain after writei_func, readi_func, ...
\* the result chain waiting and retrying on every negative result it has
\* no recovery for
pcm_result_retries_errors(r, count) ==
    IF r = 0 - EPIPE THEN "xrun"
    ELSE IF r = 0 - ESTRPIPE THEN "suspend"
    ELSE IF r < 0 \/ r < count THEN "wait"
    ELSE "ok"

pcm_result(r, count) ==
    IF r = 0 - EAGAIN \/ (r >= 0 /\ r < count) THEN "wait"
    ELSE IF r = 0 - EPIPE THEN "xrun"
    ELSE IF r = 0 - ESTRPIPE THEN "suspend"
    ELSE IF r < 0 THEN "fatal"
    ELSE "ok"

\* history of the handling of one device result: what the loop did, the
\* loop's counters before the call, the calls of snd_pcm_wait and
\* snd_pcm_prepare, the status xrun() got, the answer of snd_pcm_resume
NoRec == [what |-> "", before |-> <<>>, waits |-> 0, prepares |-> 0,
          prepareok |-> FALSE, statusok |-> FALSE, state |-> "",
          log |-> "", r |-> 0, res |-> 0, sleeps |-> 0]

\* the loop's counters and cursor
Counters(x) == <<x.count, x.result, x.data>>

\* the results a device call for count frames may have
DeviceResults(count) ==
    {r \in 0..count :
        IsWrite(xf.fn)
        \/ devpos + (r * params.bits_per_frame) \div 8 <= MaxCapture}
      \cup {0 - EAGAIN}
      \cup (IF hist.nfaults < opt.faults
            THEN {0 - EPIPE, 0 - ESTRPIPE, 0 - EIO} ELSE {})

(***************************************************************************)
(* do_test_position(): the buffer-position monitor of --test-position.     *)
(* mon holds its static variables; an invocation reads snd_pcm_avail_delay *)
(* (err1, avail, delay) and snd_pcm_status (err2, savail, sdelay).         *)
(***************************************************************************)
NoMon ==
    [counter |-> 0, tmr |-> 0 - 1, availsum |-> 0, delaysum |-> 0,
     samples |-> 0, maxavail |-> 0, maxdelay |-> 0, minavail |-> 0,
     mindelay |-> 0, badavail |-> 0, baddelay |-> 0]

\* outofrange = (test_coef * buffer_frames) / 2
outofrange(test_coef, buffer_frames) == (test_coef * buffer_frames) \div 2

\* what the two queries of one invocation may answer: a failing query
\* leaves its readings unset (0 here)
MonitorInputs(readings) ==
    {[err1 |-> 0 - 1, err2 |-> 0, avail |-> 0, delay |-> 0, savail |-> 0,
      sdelay |-> 0]}
    \cup {[err1 |-> 0, err2 |-> 0 - 1, avail |-> a, delay |-> d,
           savail |-> 0, sdelay |-> 0] : a \in readings, d \in readings}
    \cup {[err1 |-> 0, err2 |-> 0, avail |-> a, delay |-> d, savail |-> sa,
           sdelay |-> sd] :
            a \in readings, d \in readings, sa \in readings, sd \in readings}

Max2(a, b) == IF a > b THEN a ELSE b
Min2(a, b) == IF a < b THEN a ELSE b

\* the accumulators as the two out-of-range branches and the first
\* statistics sample leave them
mon_reset(m, buffer_frames) ==
    [m EXCEPT !.availsum = 0, !.delaysum = 0, !.samples = 0,
              !.maxavail = 0, !.maxdelay = 0,
              !.minavail = buffer_frames * 16,
              !.mindelay = buffer_frames * 16]

\* a monitor that resets the accumulators on every suspicious reading
do_test_position_resets_all(m, q, o, buffer_frames, tnow) ==
    LET lim == outofrange(o.test_coef, buffer_frames)
        far(v) == v > lim \/ v < 0 - lim
    IN  IF q.err1 < 0 \/ q.err2 < 0
        THEN [mon |-> m, exit |-> FALSE]
        ELSE IF far(q.avail) \/ far(q.delay) \/ far(q.savail) \/ far(q.sdelay)
                \/ (o.stream = "CAPTURE"
                    /\ (q.avail > q.delay \/ q.savail > q.sdelay))
        THEN [mon |-> [mon_reset(m, buffer_frames) EXCEPT
                          !.counter = @ + 1],
              exit |-> FALSE]
        ELSE [mon |-> m, exit |-> FALSE]

\* a monitor that ends the process when a query fails
do_test_position_fatal(m, q, o, buffer_frames, tnow) ==
    [mon |-> m, exit |-> q.err1 < 0 \/ q.err2 < 0]

\* one invocation at time tnow: the statics afterwards, and whether the
\* process is ended (every path of the function returns)
do_test_position(m, q, o, buffer_frames, tnow) ==
    LET lim == outofrange(o.test_coef, buffer_frames)
        far(v) == v > lim \/ v < 0 - lim
    IN  IF q.err1 < 0 \/ q.err2 < 0
        THEN [mon |-> m, exit |-> FALSE]
        ELSE IF far(q.avail) \/ far(q.delay)
        THEN [mon |-> [mon_reset(m, buffer_frames) EXCEPT
                          !.badavail = q.avail, !.baddelay = q.delay,
                          !.counter = @ + 1],
              exit |-> FALSE]
        ELSE IF far(q.savail) \/ far(q.sdelay)
        THEN [mon |-> [mon_reset(m, buffer_frames) EXCEPT
                          !.badavail = q.savail, !.baddelay = q.sdelay,
                          !.counter = @ + 1],
              exit |-> FALSE]
        ELSE IF o.stream = "CAPTURE" /\ q.avail > q.delay
        THEN [mon |-> [m EXCEPT !.counter = @ + 1], exit |-> FALSE]
        ELSE IF o.stream = "CAPTURE" /\ q.savail > q.sdelay
        THEN [mon |-> [m EXCEPT !.counter = @ + 1], exit |-> FALSE]
        ELSE IF o.verbose # 0
        THEN LET m0 == IF m.tmr = 0 - 1
                       THEN [mon_reset(m, buffer_frames) EXCEPT !.tmr = tnow]
                       ELSE m
                 m1 == [m0 EXCEPT
                          !.maxavail = Max2(Max2(@, q.avail), q.savail),
                          !.maxdelay = Max2(Max2(@, q.delay), q.sdelay),
                          !.minavail = Min2(Min2(@, q.avail), q.savail),
                          !.mindelay = Min2(Min2(@, q.delay), q.sdelay),
                          !.availsum = @ + q.avail,
                          !.delaysum = @ + q.delay,
                          !.samples = @ + 1]
             IN  [mon |-> IF (m1.maxavail # 0 \/ m1.maxdelay # 0)
                             /\ tnow # m1.tmr
                          THEN [m1 EXCEPT !.tmr = tnow]
                          ELSE m1,
                  exit |-> FALSE]
        ELSE [mon |-> m, exit |-> FALSE]

(***************************************************************************)
(* compute_max_peak(): the peak meter of -V.  A sample format is its       *)
(* physical width, its significant width and its signedness; a sample word *)
(* is the two's complement value of its bits at the physical width, after  *)
(* le/be..toh.  vu holds the statics run, maxperc and t, and what the last *)
(* call computed and printed.                                              *)
(***************************************************************************)
INT_MAX == 2147483647

Fmt(pw, w, u) == [physical_width |-> pw, width |-> w, unsigned |-> u]
U8 == Fmt(8, 8, TRUE)
S8 == Fmt(8, 8, FALSE)
S16 == Fmt(16, 16, FALSE)
U16 == Fmt(16, 16, TRUE)
S24_3 == Fmt(24, 24, FALSE)
U24_3 == Fmt(24, 24, TRUE)
S20_3 == Fmt(24, 20, FALSE)
S18_3 == Fmt(24, 18, FALSE)
S32 == Fmt(32, 32, FALSE)
U32 == Fmt(32, 32, TRUE)
S24 == Fmt(32, 24, FALSE)
U24 == Fmt(32, 24, TRUE)
S20 == Fmt(32, 20, FALSE)
FLOAT64 == Fmt(64, 64, FALSE)

\* 2^(w-1) - 1 within 32-bit arithmetic
HalfLess1(w) == IF w = 32 THEN INT_MAX ELSE 2^(w - 1) - 1

\* the bit snd_pcm_format_silence*() sets: the top significant bit of an
\* unsigned format, none (-1) of a signed one
silence_bit(f) == IF f.unsigned THEN f.width - 1 ELSE 0 - 1

\* val ^ mask for a word of w bits and a one-bit mask
xor_mask(val, w, k) ==
    IF k < 0 THEN val
    ELSE IF k = w - 1
    THEN IF val < 0 THEN (val + HalfLess1(w)) + 1
                    ELSE (val - HalfLess1(w)) - 1
    ELSE IF (val % (2^(k + 1))) >= 2^k THEN val - 2^k ELSE val + 2^k

abs(v) == IF v < 0 THEN 0 - v ELSE v

\* the magnitude one sample adds to the peak search
sample_peak(word, f) ==
    LET val == xor_mask(word, f.physical_width, silence_bit(f)) IN
    IF f.physical_width = 32 /\ val = (0 - INT_MAX) - 1
    THEN INT_MAX
    ELSE abs(val)

RECURSIVE peak_of(_, _, _, _, _)
\* max_peak[c] over the samples from position i on; stereo alternates c
peak_of(data, i, c, f, stereo) ==
    IF i > Len(data) THEN 0
    ELSE LET rest == peak_of(data, i + 1, c, f, stereo)
             mine == (~stereo /\ c = 0) \/ (stereo /\ (i - 1) % 2 = c)
         IN  IF mine THEN Max2(sample_peak(data[i], f), rest) ELSE rest

\* max = 1 << (significant_bits_per_sample - 1), 0x7fffffff if that is not
\* positive
full_scale(f) == IF f.width >= 32 THEN INT_MAX ELSE 2^(f.width - 1)

\* a meter that does not limit the peak to full scale
clamp_peak_none(peak, max) == peak

\* if (max_peak[c] > max) max_peak[c] = max
clamp_peak(peak, max) == IF peak > max THEN max ELSE peak

\* perc[c]
percent(peak, f) ==
    LET max == full_scale(f)
        p == clamp_peak(peak, max)
    IN  IF f.physical_width > 16 THEN p \div (max \div 100)
        ELSE (p * 100) \div max

Supported(f) == f.physical_width \in {8, 16, 24, 32}

\* vumeter as set_params leaves it: the stereo meter needs two interleaved
\* channels
set_params_vumeter(o) ==
    IF o.vumeter = "STEREO"
       /\ (o.channels # 2 \/ ~o.interleaved \/ o.verbose > 2)
    THEN "MONO"
    ELSE o.vumeter

\* handed and moved are the places in audiobuf of the bytes last handed to
\* the meter and last moved by the device
NoVu == [run |-> 0, msgs |-> 0, out |-> FALSE, clip |-> FALSE,
         perc |-> <<>>, maxperc |-> <<0, 0>>, t |-> 0, data |-> <<>>,
         handed |-> {}, moved |-> {}, calls |-> 0]

\* a meter that reports an unsupported width on every call
compute_max_peak_every_time(v, data, o, tnow) ==
    [v EXCEPT !.msgs = @ + 1, !.data = data, !.calls = 1, !.perc = <<>>]

\* one call on the samples data at time tnow
compute_max_peak(v, data, o, tnow) ==
    LET f == o.format
        stereo == set_params_vumeter(o) = "STEREO"
        ichans == IF stereo THEN 2 ELSE 1
        v0 == [v EXCEPT !.data = data, !.calls = 1]
    IN  IF ~Supported(f)
        THEN [v0 EXCEPT !.run = 1, !.msgs = IF v.run = 0 THEN @ + 1 ELSE @,
                        !.perc = <<>>]
        ELSE LET perc == [c \in 1..ichans |->
                            percent(peak_of(data, 1, c - 1, f, stereo), f)]
             IN  IF o.interleaved /\ o.verbose <= 2
                 THEN LET mp0 == IF tnow > v.t THEN <<0, 0>> ELSE v.maxperc
                          mp == [c \in 1..2 |->
                                   IF c <= ichans /\ perc[c] > mp0[c]
                                   THEN perc[c] ELSE mp0[c]]
                      IN  [v0 EXCEPT !.perc = perc, !.maxperc = mp,
                                     !.t = IF tnow > v.t THEN tnow ELSE @,
                                     !.out = TRUE,
                                     !.clip = ~stereo /\ perc[1] > 100]
                 ELSE [v0 EXCEPT !.perc = perc, !.out = o.verbose = 3]

\* the little-endian sample word of bps bytes after byte offset at
le_word(buf, at, bps) ==
    LET low(j) == IF j < bps - 1 THEN (buf[at + j + 1] % 256) * (256^j)
                  ELSE 0
        top == buf[at + bps] % 256
    IN  (IF top >= 128 THEN top - 256 ELSE top) * (256^(bps - 1))
          + low(0) + low(1) + low(2)

\* the nsamples sample words the meter reads from byte offset start on; it
\* reads none of an unsupported width
sample_words(buf, start, nsamples, f) ==
    IF Supported(f)
    THEN [k \in 1..nsamples |->
            le_word(buf, start + (k - 1) * (f.physical_width \div 8),
                    f.physical_width \div 8)]
    ELSE <<>>

\* the calls of the meter after a device call that moved r frames, buf
\* being the buffer after the call: compute_max_peak(data, r * channels)
\* in pcm_write and pcm_read, compute_max_peak(data[channel], r) for every
\* channel in pcm_writev and pcm_readv
pcm_meter(v, x, r, buf, o, tnow) ==
    LET bps == o.format.physical_width \div 8 IN
    IF IsPlanar(x.fn)
    THEN LET call(w, channel) ==
                 compute_max_peak(
                     w, sample_words(buf, vsize * channel, r, o.format), o,
                     tnow)
             v1 == call(v, 0)
             v2 == IF o.channels > 1 THEN call(v1, 1) ELSE v1
         IN  [v2 EXCEPT !.handed = {vsize * channel + i :
                                      channel \in 0..(o.channels - 1),
                                      i \in 1..(r * bps)}]
    ELSE [compute_max_peak(
              v, sample_words(buf, x.data, r * o.channels, o.format), o,
              tnow)
            EXCEPT !.handed = {x.data + i : i \in 1..(r * bps * o.channels)}]

\* the invocation last made: its readings
NoTp == [q |-> [err1 |-> 0 - 1, err2 |-> 0, avail |-> 0, delay |-> 0,
                savail |-> 0, sdelay |-> 0],
         n |-> 0]

\* top of a transfer loop: the loop test, and the return
PcmTop ==
    /\ pc = "pcm_top"
    /\ IF pcm_continue(xf, in_aborting)
       THEN \* check_stdin() reads nothing unless -i is on and keys arrive
            /\ pc' = IF opt.interactive /\ opt.keys > 0
                     THEN "check_stdin" ELSE "pcm_io"
            /\ xf' = [xf EXCEPT !.r = NoResult]
            /\ UNCHANGED hist
       ELSE /\ pc' = "pcm_ret"
            /\ xf' = [xf EXCEPT !.ret = IF IsWrite(xf.fn)
                                         THEN pcm_write_return(xf)
                                         ELSE pcm_read_return(xf)]
            \* the record of the last device call ends with the request
            /\ hist' = [hist EXCEPT !.rec = NoRec]
    /\ UNCHANGED <<exit_code, opt, mon, vu, paused, sigvars, handle, proc, params, audiobuf,
                   srcpos, pb, cap, dev, devpos, filevars>>

\* one device call (writei_func, writen_func, readi_func, readn_func) and
\* the handling of its result; tp is the record of the monitor's last
\* invocation
PcmCall(tp) ==
    /\ \E r \in DeviceResults(xf.count) :
        LET what == pcm_result(r, xf.count)
            h0 == [hist EXCEPT
                     !.tp = tp,
                     !.io_after = IF in_aborting THEN @ + 1 ELSE @,
                     !.nfaults = IF what \in {"xrun", "suspend", "fatal"}
                                 THEN @ + 1 ELSE @]
            rec0 == [NoRec EXCEPT !.what = what, !.r = r,
                                  !.before = Counters(xf)]
        IN
        /\ xf' = [pcm_advance(xf, r) EXCEPT
                     !.r = r,
                     !.xfer = IF r > 0 THEN @ + r ELSE @,
                     !.nfault = IF r = 0 - EPIPE THEN @ + 1 ELSE @]
        /\ IF r > 0 /\ IsWrite(xf.fn)
           THEN dev' = dev \o DevTake(audiobuf, xf, r)
           ELSE dev' = dev
        /\ IF r > 0 /\ ~IsWrite(xf.fn)
           THEN /\ audiobuf' = DevGive(audiobuf, xf, r, devpos)
                /\ devpos' = devpos + (r * params.bits_per_frame) \div 8
           ELSE UNCHANGED <<audiobuf, devpos>>
        /\ IF what = "wait"
           THEN \* snd_pcm_wait(handle, 100) unless test_nowait
                /\ pc' = "pcm_top"
                /\ hist' = [h0 EXCEPT
                      !.rec = [rec0 EXCEPT
                                 !.waits = IF opt.test_nowait THEN 0 ELSE 1]]
                /\ UNCHANGED <<exit_code, handle, proc>>
           ELSE IF what = "xrun"
           THEN \E statusok \in BOOLEAN, state \in PcmStates,
                   prepareok \in BOOLEAN :
                  LET o == xrun(statusok, state, prepareok, opt) IN
                  /\ hist' = [h0 EXCEPT
                        !.nepipe = @ + 1,
                        !.xrunlog = IF o.log # "" THEN @ + 1 ELSE @,
                        !.rec = [rec0 EXCEPT
                                   !.statusok = statusok,
                                   !.state = IF statusok THEN state ELSE "",
                                   !.log = o.log,
                                   !.prepares = IF o.prepare THEN 1 ELSE 0,
                                   !.prepareok = o.prepare /\ prepareok]]
                  /\ IF o.exit
                     THEN prg_exit(EXIT_FAILURE)
                     ELSE pc' = "pcm_top" /\ UNCHANGED <<exit_code, handle, proc>>
           ELSE IF what = "suspend"
           THEN /\ pc' = "suspend"
                /\ hist' = [h0 EXCEPT !.rec = rec0]
                /\ UNCHANGED <<exit_code, handle, proc>>
           ELSE IF what = "fatal"
           THEN /\ prg_exit(EXIT_FAILURE)
                /\ hist' = [h0 EXCEPT !.rec = rec0]
           ELSE /\ pc' = "pcm_top"
                /\ hist' = [h0 EXCEPT !.rec = rec0]
                /\ UNCHANGED <<exit_code, handle, proc>>

\* one pass of a transfer loop's body: do_test_position() before and after
\* the device call when --test-position is given
PcmIo ==
    /\ pc = "pcm_io"
    /\ IF opt.test_position
       THEN \E q1 \in MonitorInputs(opt.readings),
               q2 \in MonitorInputs(opt.readings) :
              LET m1 == do_test_position(mon, q1, opt, params.buffer_size,
                                         now)
                  m2 == do_test_position(m1.mon, q2, opt, params.buffer_size,
                                         now)
                  tp == [q |-> q2, n |-> 1]
              IN  /\ m2.mon.counter <= MaxSuspicious
                  /\ m2.mon.samples <= MaxSamples
                  /\ mon' = m2.mon
                  /\ IF m1.exit \/ m2.exit
                     THEN /\ prg_exit(EXIT_FAILURE)
                          /\ hist' = [hist EXCEPT !.tp = tp]
                          /\ UNCHANGED <<xf, dev, audiobuf, devpos>>
                     ELSE PcmCall(tp)
       ELSE /\ PcmCall(hist.tp)
            /\ UNCHANGED mon
    /\ vu' = IF set_params_vumeter(opt) # "NONE" /\ xf'.r > 0
             THEN [pcm_meter(vu, xf, xf'.r, audiobuf', opt, now) EXCEPT
                     !.moved = {XferOffset(xf, i - 1) + 1 :
                                  i \in 1..((xf'.r * params.bits_per_frame)
                                               \div 8)}]
             ELSE vu
    /\ UNCHANGED <<opt, paused, sigvars, params, srcpos, pb, cap, filevars>>

(***************************************************************************)
(* suspend(): one snd_pcm_resume attempt.  -EAGAIN sleeps and retries, 0   *)
(* is resumed, another error re-primes the device with snd_pcm_prepare.    *)
(***************************************************************************)
ENOSYS == 38
ResumeResults == {0 - EAGAIN, 0, 0 - ENOSYS}

\* suspend() for one answer res of snd_pcm_resume and a snd_pcm_prepare
\* that succeeds or not: again is "sleep(1) and call snd_pcm_resume again"
\* suspend() returning after a definitive resume failure without
\* re-priming the device
suspend_no_reprime(res, prepareok) ==
    [again |-> res = 0 - EAGAIN, prepare |-> FALSE, exit |-> FALSE]

suspend(res, prepareok) ==
    IF res = 0 - EAGAIN
    THEN [again |-> TRUE, prepare |-> FALSE, exit |-> FALSE]
    ELSE IF res < 0
    THEN [again |-> FALSE, prepare |-> TRUE, exit |-> ~prepareok]
    ELSE [again |-> FALSE, prepare |-> FALSE, exit |-> FALSE]

Suspend ==
    /\ pc = "suspend"
    /\ \E res \in ResumeResults, prepareok \in BOOLEAN :
        LET o == suspend(res, prepareok) IN
        /\ o.again => hist.rec.sleeps < MaxSleeps
        /\ hist' = [hist EXCEPT
              !.rec = [@ EXCEPT
                         !.res = res,
                         !.sleeps = IF o.again THEN @ + 1 ELSE @,
                         !.prepares = IF o.prepare THEN @ + 1 ELSE @,
                         !.prepareok = o.prepare /\ prepareok]]
        /\ IF o.exit
           THEN prg_exit(EXIT_FAILURE)
           ELSE /\ pc' = IF o.again THEN "suspend" ELSE "pcm_top"
                /\ UNCHANGED <<exit_code, handle, proc>>
    /\ UNCHANGED <<opt, mon, vu, paused, sigvars, params, audiobuf, srcpos, xf, pb, cap, dev,
                   devpos, filevars>>

(***************************************************************************)
(* check_stdin() and do_pause(): the keyboard of -i.  A read of stdin      *)
(* gives a key or nothing; paused is the device's pause state.             *)
(***************************************************************************)
Keys == {" ", "\r", "x"}

\* a keyboard on which every key releases a pause
is_any_key(b) == TRUE

\* b == ' ' || b == '\r'
is_pause_key(b) == b \in {" ", "\r"}

\* the keyboard so far: keys read, the last key, what do_pause() last did
\* with the device, whether the device was paused and whether a key was
\* passed over while it was
NoKb == [n |-> 0, key |-> "", log |-> "", pauses |-> 0, other |-> FALSE]

\* do_pause() up to its wait, for a device that is suspended or not, the
\* answers of snd_pcm_resume and snd_pcm_prepare given to suspend(), and a
\* snd_pcm_pause(handle, 1) that fails or not
do_pause(can_pause, suspended, res, prepareok, pusherr) ==
    IF ~can_pause
    THEN [paused |-> FALSE, exit |-> FALSE, log |-> "ignored"]
    ELSE IF suspended /\ suspend(res, prepareok).exit
    THEN [paused |-> FALSE, exit |-> TRUE, log |-> "prepare error"]
    ELSE IF pusherr
    THEN [paused |-> FALSE, exit |-> FALSE, log |-> "push error"]
    ELSE [paused |-> TRUE, exit |-> FALSE, log |-> "paused"]

\* the end of do_pause() after a space or carriage return: suspend() if
\* the device is suspended, snd_pcm_pause(handle, 0) that fails or not
do_release(suspended, res, prepareok, relerr) ==
    IF suspended /\ suspend(res, prepareok).exit
    THEN [paused |-> TRUE, exit |-> TRUE, log |-> "prepare error"]
    ELSE IF relerr
    THEN [paused |-> TRUE, exit |-> FALSE, log |-> "release error"]
    ELSE [paused |-> FALSE, exit |-> FALSE, log |-> "released"]

\* the keys a read of stdin may give now
KeysNow == IF hist.kb.n < opt.keys THEN Keys ELSE {}

\* the device states and answers do_pause() may meet; a suspended device
\* is a fault of the device
PauseDevice ==
    {d \in [suspended : BOOLEAN, res : ResumeResults \ {0 - EAGAIN},
            prepareok : BOOLEAN, err : BOOLEAN] :
        /\ d.suspended => hist.nfaults < opt.faults
        /\ ~d.suspended => (d.res = 0 /\ d.prepareok)}

\* check_stdin() before a device call, one read of stdin at a time
CheckStdin ==
    /\ pc = "check_stdin"
    /\ \E b \in {"none"} \cup KeysNow :
        IF b = "none"
        THEN /\ pc' = "pcm_io"
             /\ UNCHANGED <<exit_code, handle, proc, paused, hist>>
        ELSE IF ~is_pause_key(b)
        THEN /\ hist' = [hist EXCEPT !.kb = [@ EXCEPT !.n = @ + 1,
                                                     !.key = b]]
             /\ UNCHANGED <<pc, exit_code, handle, proc, paused>>
        ELSE \E d \in PauseDevice :
               LET o == do_pause(opt.can_pause, d.suspended, d.res,
                                 d.prepareok, d.err)
               IN
               /\ hist' = [hist EXCEPT
                     !.nfaults = IF d.suspended THEN @ + 1 ELSE @,
                     !.kb = [@ EXCEPT !.n = @ + 1, !.key = b,
                                      !.log = o.log,
                                      !.pauses = IF o.paused THEN 1 ELSE @]]
               /\ paused' = o.paused
               /\ IF o.exit
                  THEN prg_exit(EXIT_FAILURE)
                  ELSE /\ pc' = IF o.paused THEN "paused" ELSE "check_stdin"
                       /\ UNCHANGED <<exit_code, handle, proc>>
    /\ UNCHANGED <<opt, mon, vu, sigvars, params, audiobuf, srcpos, xf, pb,
                   cap, dev, devpos, filevars>>

\* the wait of do_pause(): wait_for_input() gives the next key
Paused ==
    /\ pc = "paused"
    /\ \E b \in KeysNow :
        IF ~is_pause_key(b)
        THEN /\ hist' = [hist EXCEPT !.kb = [@ EXCEPT !.n = @ + 1,
                                                     !.key = b,
                                                     !.other = TRUE]]
             /\ UNCHANGED <<pc, exit_code, handle, proc, paused>>
        ELSE \E d \in PauseDevice :
               LET o == do_release(d.suspended, d.res, d.prepareok, d.err)
               IN
               /\ hist' = [hist EXCEPT
                     !.nfaults = IF d.suspended THEN @ + 1 ELSE @,
                     !.kb = [@ EXCEPT !.n = @ + 1, !.key = b,
                                      !.log = o.log]]
               /\ paused' = o.paused
               /\ IF o.exit
                  THEN prg_exit(EXIT_FAILURE)
                  ELSE /\ pc' = "check_stdin"
                       /\ UNCHANGED <<exit_code, handle, proc>>
    /\ UNCHANGED <<opt, mon, vu, sigvars, params, audiobuf, srcpos, xf, pb,
                   cap, dev, devpos, filevars>>

(***************************************************************************)
(* The asynchronous triggers.                                              *)
(***************************************************************************)
\* the wait status of a process a signal terminated (SIG_DFL), not an exit
KilledBySignal == 128

\* a transfer request is running
InTransfer == pc \in {"pcm_top", "pcm_io", "suspend", "pcm_ret"}

\* what signal_handler(sig) does, besides setting in_aborting, before it
\* returns (quiet_mode is off): the line "Aborted by signal ...",
\* snd_pcm_abort(handle) if handle is set, prg_exit for SIGABRT
handler_ops(sig) ==
    {"fprintf"}
      \cup (IF handle = "open" THEN {"snd_pcm_abort"} ELSE {})
      \cup (IF sig = "SIGABRT" THEN {"prg_exit"} ELSE {})

\* signal_handler(sig) for SIGINT, SIGTERM, SIGABRT; delivery of a signal
\* whose disposition the handler has reset to SIG_DFL ends the process
SigAbort ==
    /\ pc \notin {"start", "opened", "exited"}
    /\ opt.aborts
    /\ \E sig \in AbortSignals :
        IF sig \in sigdfl
        THEN /\ pc' = "exited"
             /\ exit_code' = KilledBySignal
             /\ proc' = [proc EXCEPT !.ended = "signal"]
             /\ UNCHANGED <<in_aborting, sigdfl, handle, hist>>
        ELSE /\ ~in_aborting
             /\ in_aborting' = TRUE
             /\ hist' = [hist EXCEPT
                   !.abort_in_xfer = @ \/ (sig # "SIGABRT" /\ InTransfer),
                   !.abort_at = pc,
                   !.handler = @ \cup handler_ops(sig)]
             /\ IF sig = "SIGABRT"
                THEN \* handle = NULL; prg_exit(EXIT_FAILURE)
                     /\ pc' = "exited"
                     /\ exit_code' = EXIT_FAILURE
                     /\ handle' = "null"
                     /\ proc' = prg_exit_proc(proc)
                     /\ UNCHANGED sigdfl
                ELSE /\ sigdfl' = sigdfl \cup {sig}
                     /\ UNCHANGED <<pc, exit_code, handle, proc>>
    /\ UNCHANGED <<opt, mon, vu, paused, recycle_capture_file, params, audiobuf, srcpos, xf,
                   pb, cap, dev, devpos, filevars>>

\* the chunk loop of capture() is running
InChunkLoop ==
    /\ opt.stream = "CAPTURE"
    /\ opt.interleaved
    /\ pc \in {"cap_loop", "pcm_top", "pcm_io", "suspend", "pcm_ret"}

\* signal_handler_recycle on SIGUSR1
\* a handler of SIGUSR1 that takes a second request as the withdrawal of the
\* first
signal_handler_recycle_toggles(flag) == ~flag

\* signal_handler_recycle(): "recycle_capture_file = 1;"
signal_handler_recycle(flag) == TRUE

SigRecycle ==
    /\ pc # "exited"
    /\ hist.nrecycle < opt.recycles
    /\ recycle_capture_file' = signal_handler_recycle(recycle_capture_file)
    /\ hist' = [hist EXCEPT
          !.nrecycle = @ + 1,
          !.recycle_in_loop = @ \/ InChunkLoop,
          !.rot.fresh = IF recycle_capture_file THEN @ ELSE @ + 1,
          !.rot.inloop = IF ~recycle_capture_file /\ InChunkLoop
                         THEN @ + 1 ELSE @]
    /\ UNCHANGED <<pc, exit_code, opt, mon, vu, paused, in_aborting, sigdfl, handle, proc, params,
                   audiobuf, srcpos, xf, pb, cap, dev, devpos, filevars>>

(***************************************************************************)
(* main, from snd_pcm_open to the installation of the signal handlers.     *)
(* A failure here leaves main by "return 1".                               *)
(***************************************************************************)
main_return ==
    /\ pc' = "exited"
    /\ exit_code' = EXIT_FAILURE
    /\ proc' = [proc EXCEPT !.ended = "return"]

MainOpen ==
    /\ pc = "start"
    /\ \E err \in {0 - 1, 0} :
        IF err < 0
        THEN /\ main_return
             /\ UNCHANGED handle
        ELSE /\ handle' = "open"
             /\ pc' = "opened"
             /\ UNCHANGED <<exit_code, proc>>
    /\ UNCHANGED <<opt, mon, vu, paused, sigvars, params, audiobuf, srcpos, xf, pb, cap, dev,
                   devpos, filevars, hist>>

\* the steps of main between the open and the handlers that can fail
MainFailures ==
    {"info", "malloc"} \cup (IF opt.nonblock THEN {"nonblock"} ELSE {})
                       \cup (IF opt.pidfile_name THEN {"pidfile"} ELSE {})

MainSetup ==
    /\ pc = "opened"
    /\ \E failure \in MainFailures \cup {"none"} :
        IF failure # "none"
        THEN main_return
        ELSE /\ proc' = [proc EXCEPT
                           !.pidfile_written = opt.pidfile_name,
                           !.pidfile = opt.pidfile_name]
             /\ pc' = "main"
             /\ UNCHANGED exit_code
    /\ UNCHANGED <<opt, mon, vu, paused, sigvars, handle, params, audiobuf, srcpos, xf, pb, cap,
                   dev, devpos, filevars, hist>>

(***************************************************************************)
(* main, after the signal handlers are installed: the end of main.         *)
(***************************************************************************)
\* "while (optind <= argc - 1) playback(argv[optind++]);": more files
\* follow; the next one is read from its start
MainNext ==
    /\ pc = "main_end"
    /\ opt.interleaved
    /\ proc.optind < opt.files
    /\ pc' = "main"
    /\ proc' = [proc EXCEPT !.optind = @ + 1]
    /\ srcpos' = [channel \in DOMAIN srcpos |-> 0]
    /\ UNCHANGED <<exit_code, opt, mon, vu, paused, sigvars, handle, params,
                   audiobuf, xf, pb, cap, dev, devpos, filevars, hist>>

MainEnd ==
    /\ pc = "main_end"
    /\ ~(opt.interleaved /\ proc.optind < opt.files)
    \* snd_pcm_close(handle); handle = NULL; ... prg_exit(EXIT_SUCCESS)
    /\ prg_exit(EXIT_SUCCESS)
    /\ UNCHANGED <<opt, mon, vu, paused, sigvars, params, audiobuf, srcpos, xf, pb, cap, dev,
                   devpos, filevars, hist>>

(***************************************************************************)
(* playback -> playback_raw -> playback_go.  pb holds written, l, count    *)
(* (and c for playbackv_go).                                               *)
(***************************************************************************)
NoPb == [written |-> 0, l |-> 0, count |-> 0]

\* safe_read(fd, buf, count) on the source of channel ch: everything up to
\* the end of the file
safe_read(ch, count) == Min(count, opt.srclen[ch + 1] - srcpos[ch + 1])

\* the do-while loop of playback_go that fills audiobuf from the source;
\* pos is the file offset.  The result is l, the offset and the buffer.
RECURSIVE FillChunk(_, _, _)
FillChunk(l, pos, buf) ==
    LET c0 == pb.count - pb.written
        c1 == IF c0 > params.chunk_bytes THEN params.chunk_bytes ELSE c0
        l1 == IF c1 < l THEN c1 ELSE l
        c2 == c1 - l1
        r == Min(c2, opt.srclen[1] - pos)
        buf2 == [i \in DOMAIN buf |->
                    IF l1 < i /\ i <= l1 + r
                    THEN SrcByte(0, pos + (i - l1)) ELSE buf[i]]
    IN  IF c2 = 0 \/ r = 0
        THEN [l |-> l1, pos |-> pos, buf |-> buf]
        ELSE IF l1 + r < params.chunk_bytes
        THEN FillChunk(l1 + r, pos + r, buf2)
        ELSE [l |-> l1 + r, pos |-> pos + r, buf |-> buf2]

\* playback(name) up to the second loop of playback_go (loaded is 0)
Playback ==
    /\ pc = "main"
    /\ opt.stream = "PLAYBACK"
    /\ opt.interleaved
    /\ \E n \in Negotiable :
        IF set_params_refuses(n[1], n[2])
        THEN /\ prg_exit_from(EXIT_FAILURE, init_stdin(proc))
             /\ UNCHANGED <<params, audiobuf, pb>>
        ELSE /\ params' = ParamsOf(n[1], n[2])
             /\ audiobuf' = [i \in 1..params'.chunk_bytes |-> Junk]
             /\ pb' = [written |-> 0, l |-> 0,
                       count |-> calc_count(opt, LLONG_MAX)]
             /\ proc' = init_stdin(proc)
             /\ pc' = "pb_loop"
             /\ UNCHANGED <<exit_code, handle>>
    /\ UNCHANGED <<opt, mon, vu, paused, sigvars, srcpos, xf, cap, dev, devpos, filevars,
                   hist>>

\* the test "while (written < count && !in_aborting)"
PlaybackLoop ==
    /\ pc = "pb_loop"
    /\ pc' = IF pb.written < pb.count /\ ~in_aborting
             THEN "pb_fill" ELSE "pb_end"
    /\ UNCHANGED <<exit_code, opt, mon, vu, paused, sigvars, handle, proc, params, audiobuf, srcpos,
                   xf, pb, cap, dev, devpos, filevars, hist>>

\* the body of the loop up to the call: fill a chunk, call pcm_write
PlaybackFill ==
    /\ pc = "pb_fill"
    /\ LET f == FillChunk(pb.l, srcpos[1], audiobuf)
           l == (f.l * 8) \div params.bits_per_frame
       IN  /\ srcpos' = [srcpos EXCEPT ![1] = f.pos]
           /\ pb' = [pb EXCEPT !.l = l]
           /\ audiobuf' = pcm_write_pad(f.buf, l)
           /\ xf' = XfBegin("pcm_write", l)
           /\ pc' = "pcm_top"
    /\ hist' = [hist EXCEPT
                  !.read_after = IF in_aborting
                                 THEN @ + (srcpos'[1] - srcpos[1]) ELSE @]
    /\ UNCHANGED <<exit_code, opt, mon, vu, paused, sigvars, handle, proc, params, cap, dev, devpos,
                   filevars>>

\* after pcm_write: "if (r != l) break; written += r * bits_per_frame / 8"
PlaybackAfter ==
    /\ pc = "pcm_ret"
    /\ xf.fn = "pcm_write"
    /\ IF xf.ret # pb.l
       THEN pc' = "pb_end" /\ UNCHANGED pb
       ELSE /\ pb' = [pb EXCEPT
                        !.written = @ + (xf.ret * params.bits_per_frame) \div 8,
                        !.l = 0]
            /\ pc' = "pb_loop"
    /\ UNCHANGED <<exit_code, opt, mon, vu, paused, sigvars, handle, proc, params, audiobuf, srcpos,
                   xf, cap, dev, devpos, filevars, hist>>

\* the end of playback_go and playbackv_go: the test "if (!in_aborting)"
PlaybackEnd ==
    /\ pc = "pb_end"
    /\ pc' = IF ~in_aborting THEN "pb_drain" ELSE "main_end"
    /\ UNCHANGED <<exit_code, opt, mon, vu, paused, sigvars, handle, proc, params, audiobuf, srcpos,
                   xf, pb, cap, dev, devpos, filevars, hist>>

\* snd_pcm_nonblock(handle, 0); snd_pcm_drain(handle); snd_pcm_nonblock
PlaybackDrain ==
    /\ pc = "pb_drain"
    /\ hist' = [hist EXCEPT !.drained = TRUE,
                            !.drain_after = @ \/ in_aborting]
    /\ pc' = "main_end"
    /\ UNCHANGED <<exit_code, opt, mon, vu, paused, sigvars, handle, proc, params, audiobuf, srcpos,
                   xf, pb, cap, dev, devpos, filevars>>

(***************************************************************************)
(* playbackv -> playbackv_go: one source file per channel,                 *)
(* bufs[channel] = audiobuf + vsize * channel.  pb.count is the remaining  *)
(* byte count, pb.l the frame count c handed to pcm_writev.                *)
(***************************************************************************)
Playbackv ==
    /\ pc = "main"
    /\ opt.stream = "PLAYBACK"
    /\ ~opt.interleaved
    /\ \E n \in Negotiable :
        IF set_params_refuses(n[1], n[2])
        THEN /\ prg_exit(EXIT_FAILURE)
             /\ UNCHANGED <<params, audiobuf, pb>>
        ELSE /\ params' = ParamsOf(n[1], n[2])
             /\ audiobuf' = [i \in 1..params'.chunk_bytes |-> Junk]
             /\ pb' = [written |-> 0, l |-> 0,
                       count |-> calc_count(opt, LLONG_MAX)]
             /\ pc' = "pbv_loop"
             /\ UNCHANGED <<exit_code, handle, proc>>
    /\ UNCHANGED <<opt, mon, vu, paused, sigvars, srcpos, xf, cap, dev, devpos, filevars,
                   hist>>

\* the test "while (count > 0 && !in_aborting)"
PlaybackvLoop ==
    /\ pc = "pbv_loop"
    /\ pc' = IF pb.count > 0 /\ ~in_aborting THEN "pbv_fill" ELSE "pb_end"
    /\ UNCHANGED <<exit_code, opt, mon, vu, paused, sigvars, handle, proc, params, audiobuf, srcpos,
                   xf, pb, cap, dev, devpos, filevars, hist>>

\* the body of the loop up to the call: read expected bytes of every
\* channel, call pcm_writev.  The do-while reads once more only after a
\* short read, and that read returns 0.
PlaybackvFill ==
    /\ pc = "pbv_fill"
    /\ LET expected == Min(pb.count \div opt.channels, vsize)
           r == safe_read(0, expected)
           short == \E channel \in 1..(opt.channels - 1) :
                       safe_read(channel, r) # r
           c == (r * 8) \div bits_per_sample
           buf == [i \in DOMAIN audiobuf |->
                     LET channel == (i - 1) \div vsize
                         k == (i - 1) % vsize
                     IN  IF k < r
                         THEN SrcByte(channel, srcpos[channel + 1] + k + 1)
                         ELSE audiobuf[i]]
       IN  /\ hist' = [hist EXCEPT
                 !.read_after = IF in_aborting
                                THEN @ + r + safe_read(1, r) ELSE @]
           /\ IF short
              THEN /\ prg_exit(EXIT_FAILURE)
                   /\ UNCHANGED <<srcpos, pb, audiobuf, xf>>
              ELSE /\ srcpos' = [channel \in DOMAIN srcpos |->
                                    srcpos[channel] + r]
                   /\ pb' = [pb EXCEPT !.l = c]
                   /\ audiobuf' = pcm_writev_pad(buf, c)
                   /\ xf' = XfBegin("pcm_writev", c)
                   /\ pc' = "pcm_top"
                   /\ UNCHANGED <<exit_code, handle, proc>>
    /\ UNCHANGED <<opt, mon, vu, paused, sigvars, params, cap, dev, devpos, filevars>>

\* after pcm_writev: "if (r != c) break; count -= r * bits_per_frame / 8"
PlaybackvAfter ==
    /\ pc = "pcm_ret"
    /\ xf.fn = "pcm_writev"
    /\ IF xf.ret # pb.l
       THEN pc' = "pb_end" /\ UNCHANGED pb
       ELSE /\ pb' = [pb EXCEPT
                        !.count = @ - (xf.ret * params.bits_per_frame) \div 8]
            /\ pc' = "pbv_loop"
    /\ UNCHANGED <<exit_code, opt, mon, vu, paused, sigvars, handle, proc, params, audiobuf, srcpos,
                   xf, cap, dev, devpos, filevars, hist>>

(***************************************************************************)
(* The directory fs is a set of <<name, inode>> pairs; inodes[i] is the    *)
(* content of the i-th file created.                                       *)
(***************************************************************************)
Exists(dir, name) == \E e \in dir : e[1] = name
InodeOf(dir, name) == (CHOOSE e \in dir : e[1] = name)[2]
\* remove(name)
Remove(dir, name) == {e \in dir : e[1] # name}
\* rename(from, to): fails, changing nothing, when from does not exist
Rename(dir, from, to) ==
    IF Exists(dir, from)
    THEN Remove(Remove(dir, from), to) \cup {<<to, InodeOf(dir, from)>>}
    ELSE dir

\* the parent directories of a path, as create_path walks them: the
\* prefixes that end before a "/" which is not the first character
Parents(path) ==
    {SubSeq(path, 1, k - 1) : k \in {j \in 2..Len(path) : path[j] = "/"}}

\* create_path(path): mkdir of every parent; 0 on success
create_path(path, d, mkdirok) ==
    IF mkdirok THEN [res |-> 0, dirs |-> d \cup Parents(path)]
    ELSE [res |-> 0 - 1, dirs |-> d]

\* safe_open(name): open with O_CREAT fails with ENOENT when a parent
\* directory is missing; then, with use_strftime only, create_path and a
\* second open
safe_open(name, d, use_strftime, mkdirok) ==
    IF Parents(name) \subseteq d
    THEN [ok |-> TRUE, dirs |-> d, enoent |-> FALSE, create_path |-> FALSE]
    ELSE IF ~use_strftime
    THEN [ok |-> FALSE, dirs |-> d, enoent |-> TRUE, create_path |-> FALSE]
    ELSE LET c == create_path(name, d, mkdirok)
         IN  [ok |-> c.res = 0, dirs |-> c.dirs, enoent |-> TRUE,
              create_path |-> TRUE]

(***************************************************************************)
(* capture(orig_name).  cap holds count, rest, filecount, name, the c and  *)
(* f of the running chunk, fd (the inode the open descriptor writes to, 0  *)
(* for none), max_file_size and tostdout.                                  *)
(***************************************************************************)
NoCap == [count |-> 0, rest |-> 0, filecount |-> 0, name |-> <<>>,
          c |-> 0, f |-> 0, fd |-> 0, max_file_size |-> 0,
          tostdout |-> FALSE, fdcount |-> 0]

\* "count = calc_count(); if (count == 0) count = LLONG_MAX;" and the
\* rounding to an even byte count
capture_count(o) ==
    LET c0 == calc_count(o, LLONG_MAX)
        c1 == IF c0 = 0 THEN LLONG_MAX ELSE c0
    IN  IF c1 < LLONG_MAX THEN c1 + (c1 % 2) ELSE c1 - (c1 % 2)

\* "max_file_size = max_file_time * snd_pcm_format_size(format, rate * channels)"
capture_max_file_size(o) ==
    o.max_file_time * snd_pcm_format_size(o.rate * o.channels)

\* "rest = count;" at the top of each file of capture()
capture_rest(count, max_file_size) == count

\* a next file that starts the session's byte budget again
capture_file_start_again(c) ==
    [c EXCEPT !.count = capture_count(opt), !.rest = capture_count(opt),
              !.fdcount = 0]

\* "rest = count; fdcount = 0;" before the chunk loop of each file
capture_file_start(c) ==
    [c EXCEPT !.rest = capture_rest(c.count, c.max_file_size),
              !.fdcount = 0]

Capture ==
    /\ pc = "main"
    /\ opt.stream = "CAPTURE"
    /\ opt.interleaved
    /\ \E n \in Negotiable :
        IF set_params_refuses(n[1], n[2])
        THEN /\ prg_exit(EXIT_FAILURE)
             /\ UNCHANGED <<params, audiobuf, cap, inodes>>
        ELSE LET tostdout == opt.name = <<>> \/ opt.name = <<"-">> IN
             /\ params' = ParamsOf(n[1], n[2])
             /\ audiobuf' = [i \in 1..params'.chunk_bytes |-> Junk]
             /\ cap' = [count |-> capture_count(opt), rest |-> 0,
                        filecount |-> 0, name |-> opt.name, c |-> 0,
                        f |-> 0, fd |-> IF tostdout THEN 1 ELSE 0,
                        max_file_size |-> capture_max_file_size(opt),
                        tostdout |-> tostdout, fdcount |-> 0]
             /\ inodes' = IF tostdout THEN <<<<>>>> ELSE inodes
             /\ proc' = init_stdin(proc)
             /\ pc' = "cap_open"
             /\ UNCHANGED <<exit_code, handle>>
    /\ UNCHANGED <<opt, mon, vu, paused, sigvars, srcpos, xf, pb, dev, devpos, fs, dirs, now, hist>>

\* the top of the do-while of capture(): name and open the next file
CaptureOpen ==
    /\ pc = "cap_open"
    /\ IF cap.tostdout
       THEN /\ cap' = capture_file_start(cap)
            /\ pc' = "cap_loop"
            /\ UNCHANGED <<exit_code, handle, proc, fs, dirs, inodes, hist>>
       ELSE LET numbered == cap.filecount # 0 \/ opt.use_strftime
                n == new_capture_file(opt.name, cap.filecount, now,
                                      opt.use_strftime)
                name == IF numbered THEN n.namebuf ELSE cap.name
                filecount == IF numbered THEN n.filecount ELSE cap.filecount
                fs1 == IF numbered /\ n.renamed
                       THEN Rename(Remove(fs, n.first), opt.name, n.first)
                       ELSE fs
                \* lstat, remove of a regular file, open with O_CREAT
                fs2 == Remove(fs1, name) \cup {<<name, Len(inodes) + 1>>}
            IN  IF numbered /\ n.fatal
                THEN /\ prg_exit(EXIT_FAILURE)
                     /\ UNCHANGED <<cap, fs, dirs, inodes, hist>>
                ELSE \E mkdirok \in BOOLEAN :
                     LET o == safe_open(name, dirs, opt.use_strftime,
                                        mkdirok)
                         h == [hist EXCEPT !.enoent = o.enoent,
                                           !.create_path = o.create_path,
                                           !.openfail = ~o.ok]
                     IN
                     /\ dirs' = o.dirs
                     /\ IF ~o.ok
                        THEN \* perror(name); prg_exit(EXIT_FAILURE)
                             /\ fs' = Remove(fs1, name)
                             /\ hist' = h
                             /\ prg_exit(EXIT_FAILURE)
                             /\ UNCHANGED <<cap, inodes>>
                        ELSE /\ fs' = fs2
                             /\ inodes' = Append(inodes, <<>>)
                             /\ cap' = capture_file_start(
                                   [cap EXCEPT
                                      !.name = name,
                                      !.filecount = filecount + 1,
                                      !.fd = Len(inodes) + 1])
                             /\ hist' = [h EXCEPT
                                   !.opened = Append(@, name),
                                   !.opentime = Append(@, now),
                                   !.index = Append(@,
                                       IF ~numbered THEN 1
                                       ELSE IF opt.use_strftime
                                       THEN n.filecount + 1
                                       ELSE n.filecount)]
                             /\ pc' = "cap_loop"
                             /\ UNCHANGED <<exit_code, handle, proc>>
    /\ UNCHANGED <<opt, mon, vu, paused, sigvars, params, audiobuf, srcpos, xf, pb, dev,
                   devpos, now>>

\* "while (rest > 0 && recycle_capture_file == 0 && !in_aborting)" and the
\* call of pcm_read
CaptureLoop ==
    /\ pc = "cap_loop"
    /\ IF cap.rest > 0 /\ ~recycle_capture_file /\ ~in_aborting
       THEN LET c == IF cap.rest <= params.chunk_bytes
                     THEN cap.rest ELSE params.chunk_bytes
                f == (c * 8) \div params.bits_per_frame
            IN  /\ cap' = [cap EXCEPT !.c = c, !.f = f]
                /\ xf' = XfBegin("pcm_read", f)
                /\ pc' = "pcm_top"
                /\ UNCHANGED hist
       ELSE /\ pc' = "cap_close"
            /\ hist' = [hist EXCEPT
                  !.observed =
                      IF recycle_capture_file /\ cap.rest > 0
                         /\ ~in_aborting /\ ~cap.tostdout
                      THEN Len(inodes[cap.fd]) ELSE @,
                  !.rot.observed =
                      IF recycle_capture_file /\ cap.rest > 0
                         /\ ~in_aborting
                      THEN @ + 1 ELSE @]
            /\ UNCHANGED <<cap, xf>>
    /\ UNCHANGED <<exit_code, opt, mon, vu, paused, sigvars, handle, proc, params, audiobuf, srcpos,
                   pb, dev, devpos, filevars>>

\* an xwrite that writes the buffer twice
xwrite_twice(file, buf, count) ==
    file \o SubSeq(buf, 1, count) \o SubSeq(buf, 1, count)

\* the file after a successful xwrite(fd, buf, count): the loop of write()
\* calls has appended the first count bytes of buf
xwrite(file, buf, count) == file \o SubSeq(buf, 1, count)

\* after pcm_read: save the chunk with xwrite, which writes it all or fails
CaptureAfter ==
    /\ pc = "pcm_ret"
    /\ xf.fn = "pcm_read"
    /\ \E writeok \in BOOLEAN :
        LET read == xf.ret
            save == (read * params.bits_per_frame) \div 8
        IN  IF writeok
            THEN /\ inodes' = [inodes EXCEPT
                                 ![cap.fd] = xwrite(@, audiobuf, save)]
                 /\ cap' = [cap EXCEPT !.count = @ - cap.c,
                                       !.rest = @ - cap.c,
                                       !.fdcount = @ + cap.c]
                 /\ in_aborting' = (in_aborting \/ read # cap.f)
                 /\ pc' = "cap_loop"
            ELSE /\ in_aborting' = TRUE
                 /\ pc' = "cap_close"
                 /\ UNCHANGED <<inodes, cap>>
    /\ UNCHANGED <<exit_code, opt, mon, vu, paused, recycle_capture_file, sigdfl, handle, proc,
                   params, audiobuf, srcpos, xf, pb, dev, devpos, fs, dirs, now,
                   hist>>

\* the end of the do-while of capture(): clear the rotation flag, close the
\* file, exit when aborting, test "(!timelimit && !sampleslimit) || count > 0"
CaptureClose ==
    /\ pc = "cap_close"
    /\ recycle_capture_file' = FALSE
    /\ cap' = [cap EXCEPT !.fd = IF cap.tostdout THEN @ ELSE 0]
    /\ IF in_aborting
       THEN prg_exit(EXIT_FAILURE)
       ELSE /\ pc' = IF (opt.timelimit = 0 /\ opt.sampleslimit = 0)
                        \/ cap.count > 0
                     THEN "cap_open" ELSE "main_end"
            /\ UNCHANGED <<exit_code, handle, proc>>
    /\ hist' = [hist EXCEPT
          !.rot.cleared = IF recycle_capture_file THEN @ + 1 ELSE @]
    /\ UNCHANGED <<opt, mon, vu, paused, in_aborting, sigdfl, params, audiobuf, srcpos, xf,
                   pb, dev, devpos, filevars>>

(***************************************************************************)
(* capturev -> capturev_go: one output file per channel, name.0, name.1,   *)
(* ...; cap.fd is the inode of channel 0, the others follow it.            *)
(***************************************************************************)
ChannelName(name, channel) == name \o <<".">> \o Decimal(channel)

Capturev ==
    /\ pc = "main"
    /\ opt.stream = "CAPTURE"
    /\ ~opt.interleaved
    /\ \E n \in Negotiable :
        IF set_params_refuses(n[1], n[2])
        THEN /\ prg_exit(EXIT_FAILURE)
             /\ UNCHANGED <<params, audiobuf, cap, fs, dirs, inodes, hist>>
        ELSE /\ params' = ParamsOf(n[1], n[2])
             /\ audiobuf' = [i \in 1..params'.chunk_bytes |-> Junk]
             /\ UNCHANGED dirs
             /\ fs' = fs \cup {<<ChannelName(opt.name, channel),
                                 Len(inodes) + channel + 1>> :
                                   channel \in 0..(opt.channels - 1)}
             /\ inodes' = inodes \o [channel \in 1..opt.channels |-> <<>>]
             /\ hist' = [hist EXCEPT
                   !.opened = @ \o [channel \in 1..opt.channels |->
                                      ChannelName(opt.name, channel - 1)]]
             /\ cap' = [NoCap EXCEPT !.count = calc_count(opt, LLONG_MAX),
                                     !.fd = Len(inodes) + 1]
             /\ pc' = "capv_loop"
             /\ UNCHANGED <<exit_code, handle, proc>>
    /\ UNCHANGED <<opt, mon, vu, paused, sigvars, srcpos, xf, pb, dev, devpos, now>>

\* "while (count > 0 && !in_aborting)" of capturev_go and the call of
\* pcm_readv
CapturevLoop ==
    /\ pc = "capv_loop"
    /\ IF cap.count > 0 /\ ~in_aborting
       THEN LET c0 == IF cap.count > params.chunk_bytes
                      THEN params.chunk_bytes ELSE cap.count
                c == (c0 * 8) \div params.bits_per_frame
            IN  /\ cap' = [cap EXCEPT !.c = c0, !.f = c]
                /\ xf' = XfBegin("pcm_readv", c)
                /\ pc' = "pcm_top"
       ELSE /\ pc' = "main_end"
            /\ UNCHANGED <<cap, xf>>
    /\ UNCHANGED <<exit_code, opt, mon, vu, paused, sigvars, handle, proc, params, audiobuf, srcpos,
                   pb, dev, devpos, filevars, hist>>

\* after pcm_readv: "if (r != c) break;", one xwrite per channel
CapturevAfter ==
    /\ pc = "pcm_ret"
    /\ xf.fn = "pcm_readv"
    /\ \E writeok \in BOOLEAN :
        LET r == xf.ret
            rv == (r * bits_per_sample) \div 8
        IN  IF r # cap.f
            THEN /\ pc' = "main_end"
                 /\ UNCHANGED <<exit_code, handle, proc, inodes, cap>>
            ELSE IF writeok
            THEN /\ inodes' =
                      [i \in DOMAIN inodes |->
                         IF i >= cap.fd /\ i < cap.fd + opt.channels
                         THEN inodes[i]
                                \o SubSeq(audiobuf, vsize * (i - cap.fd) + 1,
                                          vsize * (i - cap.fd) + rv)
                         ELSE inodes[i]]
                 /\ cap' = [cap EXCEPT
                       !.count = @ - (r * params.bits_per_frame) \div 8]
                 /\ pc' = "capv_loop"
                 /\ UNCHANGED <<exit_code, handle, proc>>
            ELSE /\ prg_exit(EXIT_FAILURE)
                 /\ UNCHANGED <<inodes, cap>>
    /\ UNCHANGED <<opt, mon, vu, paused, sigvars, params, audiobuf, srcpos, xf, pb, dev,
                   devpos, fs, dirs, now, hist>>

\* another process removes a file that capture has closed
ExternalRemove ==
    /\ pc # "exited"
    /\ hist.nextrm < opt.extrm
    /\ \E e \in fs :
        /\ e[2] # cap.fd
        /\ fs' = fs \ {e}
    /\ UNCHANGED dirs
    /\ hist' = [hist EXCEPT !.nextrm = @ + 1]
    /\ UNCHANGED <<pc, exit_code, opt, mon, vu, paused, sigvars, handle, proc, params, audiobuf,
                   srcpos, xf, pb, cap, dev, devpos, inodes, now>>

\* a second of wall-clock time passes (only new_capture_file with
\* use_strftime reads the clock)
Tick ==
    /\ pc # "exited"
    /\ opt.use_strftime \/ opt.verbose # 0
    /\ now < MaxClock
    /\ now' = now + 1
    /\ UNCHANGED <<pc, exit_code, opt, mon, vu, paused, sigvars, handle, proc, params, audiobuf,
                   srcpos, xf, pb, cap, dev, devpos, fs, dirs, inodes, hist>>

(***************************************************************************)
(* The initial state: main has parsed the command line, opened the device  *)
(* and installed the signal handlers.                                      *)
(***************************************************************************)
NoHist == [nfaults |-> 0, nepipe |-> 0, xrunlog |-> 0,
           drained |-> FALSE, abort_in_xfer |-> FALSE, nrecycle |-> 0,
           recycle_in_loop |-> FALSE, observed |-> 0 - 1,
           opened |-> <<>>, opentime |-> <<>>, index |-> <<>>,
           nextrm |-> 0, rec |-> NoRec, abort_at |-> "", io_after |-> 0,
           read_after |-> 0, drain_after |-> FALSE, handler |-> {},
           enoent |-> FALSE, create_path |-> FALSE, openfail |-> FALSE,
           tp |-> NoTp, kb |-> NoKb,
           rot |-> [fresh |-> 0, cleared |-> 0, observed |-> 0,
                    inloop |-> 0]]

NoProc ==
    [term_c_lflag |-> "unset", icanon |-> TRUE, pidfile_written |-> FALSE,
     pidfile |-> FALSE, ended |-> "", optind |-> 1]

InitWith(options) ==
    /\ opt \in options
    /\ pc = "main"
    /\ proc = NoProc
    /\ exit_code = 0 - 1
    /\ in_aborting = FALSE
    /\ recycle_capture_file = FALSE
    /\ sigdfl = {}
    /\ handle = "open"
    /\ params = ParamsOf(0, 0)
    /\ audiobuf = <<>>
    /\ srcpos = [channel \in 1..opt.channels |-> 0]
    /\ xf = NoXf
    /\ pb = NoPb
    /\ cap = NoCap
    /\ dev = <<>>
    /\ devpos = 0
    /\ fs = {}
    /\ dirs = IF opt.missing_dirs THEN {} ELSE Parents(opt.name)
    /\ inodes = <<>>
    /\ now = 0
    /\ hist = NoHist
    /\ mon = NoMon
    /\ vu = NoVu
    /\ paused = FALSE

REC_WAV == <<"r", "e", "c", ".", "w", "a", "v">>
\* base names without an extension
REC == <<"r", "e", "c">>
DIR_REC == <<"d", "/", "r">>
DIRX_REC == <<"d", ".", "x", "/", "r">>
\* templates for --use-strftime
PAT_SEC_V == <<"%", "S", "-", "%", "v">>
PAT_PCT_V == <<"r", "%", "%", "v">>
PAT_V_PCT == <<"%", "v", "%">>
\* names below directories, and a template that names a directory
DEEP_REC == <<"d", "/", "e", "/", "r">>
PAT_DIR == <<"%", "S", "/", "%", "v">>

\* the options every run starts from; faults is the number of device
\* faults the environment injects at most
BaseOptions ==
    [stream |-> "PLAYBACK", interleaved |-> TRUE, channels |-> 1,
     fatal_errors |-> FALSE, use_strftime |-> FALSE, timelimit |-> 0,
     sampleslimit |-> 0, rate |-> 2, max_file_time |-> 0,
     name |-> REC_WAV, srclen |-> <<>>, test_nowait |-> FALSE,
     aborts |-> TRUE, interactive |-> FALSE, pidfile_name |-> FALSE,
     nonblock |-> FALSE, missing_dirs |-> FALSE, any_buffer |-> FALSE,
     test_position |-> FALSE, test_coef |-> 8, verbose |-> 0,
     readings |-> {0}, vumeter |-> "NONE", format |-> U8,
     keys |-> 0, can_pause |-> TRUE, files |-> 1,
     faults |-> MaxFaults,
     recycles |-> MaxRecycle, extrm |-> 0]

\* playback of raw files of 0..MaxLen bytes, no -d or -s limit; the files
\* of planar playback are equally long, or the second is a byte short
PlaybackOptions ==
    {[BaseOptions EXCEPT !.interleaved = i, !.channels = ch,
                         !.fatal_errors = fe, !.srclen = sl,
                         !.test_nowait = nw, !.recycles = 0] :
        i \in BOOLEAN, ch \in 1..2, fe \in BOOLEAN, nw \in BOOLEAN,
        sl \in UNION {[1..n -> 0..MaxLen] : n \in 1..2}}

\* capture with the transfer engine exposed to faults, and to abort
\* signals or (interleaved capture, which reads recycle_capture_file) to
\* SIGUSR1
CaptureOptions ==
    {[BaseOptions EXCEPT !.stream = "CAPTURE", !.interleaved = i,
                         !.channels = ch, !.fatal_errors = fe,
                         !.sampleslimit = sa, !.aborts = ab,
                         !.test_nowait = nw,
                         !.recycles = IF ab THEN 0 ELSE MaxRecycle] :
        i \in BOOLEAN, ch \in 1..2, fe \in BOOLEAN, sa \in {0, MaxLimit},
        ab \in BOOLEAN, nw \in BOOLEAN}

WellFormed(o) ==
    /\ o.stream = "PLAYBACK" =>
          /\ Len(o.srclen) = (IF o.interleaved THEN 1 ELSE o.channels)
          /\ \A channel \in 2..Len(o.srclen) :
                o.srclen[channel] \in {o.srclen[1], o.srclen[1] - 1}
    /\ ~o.interleaved => o.channels = 2
    /\ ~o.aborts => (o.stream = "CAPTURE" /\ o.interleaved)
    \* --test-nowait is tried without --fatal-errors
    /\ o.test_nowait => ~o.fatal_errors

Init == InitWith({o \in PlaybackOptions \cup CaptureOptions : WellFormed(o)})

Next ==
    \/ Playback
    \/ PlaybackLoop
    \/ PlaybackFill
    \/ PlaybackAfter
    \/ Playbackv
    \/ PlaybackvLoop
    \/ PlaybackvFill
    \/ PlaybackvAfter
    \/ PlaybackEnd
    \/ PlaybackDrain
    \/ Capture
    \/ CaptureOpen
    \/ CaptureLoop
    \/ CaptureAfter
    \/ CaptureClose
    \/ Capturev
    \/ CapturevLoop
    \/ CapturevAfter
    \/ PcmTop
    \/ PcmIo
    \/ Suspend
    \/ SigAbort
    \/ SigRecycle
    \/ MainEnd

Spec == Init /\ [][Next]_vars

(***************************************************************************)
(* The process from snd_pcm_open to its end, for interleaved transfers:    *)
(* -i on a terminal, --process-id-file and -N are options here.            *)
(***************************************************************************)
MainOptions ==
    {[BaseOptions EXCEPT !.stream = st, !.interactive = ia,
                         !.pidfile_name = pf, !.nonblock = nb,
                         !.srclen = <<sl>>, !.sampleslimit = MaxLimit,
                         !.recycles = 0] :
        st \in {"PLAYBACK", "CAPTURE"}, ia \in BOOLEAN, pf \in BOOLEAN,
        nb \in BOOLEAN, sl \in 0..MaxLen}

InitMain ==
    /\ opt \in {o \in MainOptions : WellFormed(o)}
    /\ pc = "start"
    /\ proc = NoProc
    /\ exit_code = 0 - 1
    /\ in_aborting = FALSE
    /\ recycle_capture_file = FALSE
    /\ sigdfl = {}
    /\ handle = "none"
    /\ params = ParamsOf(0, 0)
    /\ audiobuf = <<>>
    /\ srcpos = [channel \in 1..opt.channels |-> 0]
    /\ xf = NoXf
    /\ pb = NoPb
    /\ cap = NoCap
    /\ dev = <<>>
    /\ devpos = 0
    /\ fs = {}
    /\ dirs = IF opt.missing_dirs THEN {} ELSE Parents(opt.name)
    /\ inodes = <<>>
    /\ now = 0
    /\ hist = NoHist
    /\ mon = NoMon
    /\ vu = NoVu
    /\ paused = FALSE

NextMain ==
    \/ MainOpen
    \/ MainSetup
    \/ Playback
    \/ PlaybackLoop
    \/ PlaybackFill
    \/ PlaybackAfter
    \/ PlaybackEnd
    \/ PlaybackDrain
    \/ Capture
    \/ CaptureOpen
    \/ CaptureLoop
    \/ CaptureAfter
    \/ CaptureClose
    \/ PcmTop
    \/ PcmIo
    \/ Suspend
    \/ SigAbort
    \/ MainEnd

SpecMain == InitMain /\ [][NextMain]_vars

(***************************************************************************)
(* The capture file series: capture to a named file from a device that     *)
(* does not fault, with base names and templates of every shape, up to     *)
(* MaxRotations rotation requests; the clock advances under templates,    *)
(* another process removes files of the counter-based series, and          *)
(* --max-file-time is given with the name rec.wav.                         *)
(***************************************************************************)
FileOptions ==
    {[BaseOptions EXCEPT !.stream = "CAPTURE", !.use_strftime = us,
                         !.sampleslimit = sa, !.max_file_time = mt,
                         !.name = nm, !.faults = 0,
                         !.recycles = MaxRotations,
                         !.extrm = IF us THEN 0 ELSE MaxExtRemove] :
        us \in BOOLEAN, sa \in {0, MaxLimit}, mt \in 0..1,
        nm \in {REC_WAV, REC, DIR_REC, DIRX_REC,
                PAT_SEC_V, PAT_PCT_V, PAT_V_PCT}}

InitFiles ==
    InitWith({o \in FileOptions :
                /\ o.use_strftime <=>
                      o.name \in {PAT_SEC_V, PAT_PCT_V, PAT_V_PCT}
                /\ o.max_file_time > 0 => o.name = REC_WAV})

NextFiles ==
    \/ Capture
    \/ CaptureOpen
    \/ CaptureLoop
    \/ CaptureAfter
    \/ CaptureClose
    \/ PcmTop
    \/ PcmIo
    \/ SigRecycle
    \/ ExternalRemove
    \/ Tick
    \/ MainEnd

SpecFiles == InitFiles /\ [][NextFiles]_vars

(***************************************************************************)
(* Capture to files below directories that exist or not when the session   *)
(* starts, with the counter names and with --use-strftime.                 *)
(***************************************************************************)
OpenOptions ==
    {[BaseOptions EXCEPT !.stream = "CAPTURE", !.use_strftime = us,
                         !.sampleslimit = sa, !.name = nm,
                         !.missing_dirs = md, !.faults = 0,
                         !.aborts = FALSE, !.recycles = MaxRotations] :
        us \in BOOLEAN, sa \in {0, MaxLimit}, md \in BOOLEAN,
        nm \in {DIR_REC, DEEP_REC, PAT_DIR}}

InitOpen ==
    InitWith({o \in OpenOptions :
                (o.name = PAT_DIR) => (o.use_strftime /\ o.missing_dirs)})

NextOpen ==
    \/ Capture
    \/ CaptureOpen
    \/ CaptureLoop
    \/ CaptureAfter
    \/ CaptureClose
    \/ PcmTop
    \/ PcmIo
    \/ SigRecycle
    \/ Tick
    \/ MainEnd

SpecOpen == InitOpen /\ [][NextOpen]_vars

(***************************************************************************)
(* Interleaved playback with a duration limit -d, from sources longer and  *)
(* shorter than the limit.                                                 *)
(***************************************************************************)
LimitOptions ==
    {[BaseOptions EXCEPT !.channels = ch, !.rate = ra, !.timelimit = tl,
                         !.srclen = <<sl>>, !.recycles = 0] :
        ch \in 1..2, ra \in 1..MaxRate, tl \in 1..MaxTime, sl \in 0..MaxLen}

InitLimit == InitWith(LimitOptions)

NextLimit ==
    \/ Playback
    \/ PlaybackLoop
    \/ PlaybackFill
    \/ PlaybackAfter
    \/ PlaybackEnd
    \/ PlaybackDrain
    \/ PcmTop
    \/ PcmIo
    \/ Suspend
    \/ SigAbort
    \/ MainEnd

SpecLimit == InitLimit /\ [][NextLimit]_vars

(***************************************************************************)
(* The four transfer modes on a device that reports any buffer size, with  *)
(* no fault and no signal.                                                 *)
(***************************************************************************)
ParamsOptions ==
    {[BaseOptions EXCEPT !.stream = st, !.interleaved = i, !.channels = ch,
                         !.srclen = [c \in 1..(IF i THEN 1 ELSE ch) |-> sl],
                         !.sampleslimit = MaxLimit, !.any_buffer = TRUE,
                         !.faults = 0, !.recycles = 0] :
        st \in {"PLAYBACK", "CAPTURE"}, i \in BOOLEAN, ch \in 1..2,
        sl \in 0..MaxLen}

InitParams == InitWith({o \in ParamsOptions : WellFormed(o)})

NextParams ==
    \/ Playback
    \/ PlaybackLoop
    \/ PlaybackFill
    \/ PlaybackAfter
    \/ Playbackv
    \/ PlaybackvLoop
    \/ PlaybackvFill
    \/ PlaybackvAfter
    \/ PlaybackEnd
    \/ PlaybackDrain
    \/ Capture
    \/ CaptureOpen
    \/ CaptureLoop
    \/ CaptureAfter
    \/ CaptureClose
    \/ Capturev
    \/ CapturevLoop
    \/ CapturevAfter
    \/ PcmTop
    \/ PcmIo
    \/ MainEnd

SpecParams == InitParams /\ [][NextParams]_vars

(***************************************************************************)
(* The buffer-position monitor alone: do_test_position() invoked on every  *)
(* pair of query answers, for both stream directions, with and without     *)
(* -v, for the default and the smallest --test-coef.                       *)
(***************************************************************************)
MonitorOptions ==
    {o \in {[BaseOptions EXCEPT !.stream = st, !.verbose = v, !.test_coef = tc,
                         !.test_position = TRUE,
                         !.readings = rd,
                         !.faults = 0, !.recycles = 0] :
        st \in {"PLAYBACK", "CAPTURE"}, v \in 0..1, tc \in {1, 8},
        rd \in {{0, 1}, {0 - MaxReading, 0}, {1, MaxReading}}} :
        \* the smallest --test-coef without -v
        o.test_coef = 1 => o.verbose = 0}

\* a function of the program alone, on a configured stream: position p
InitPure(options, p) ==
    /\ opt \in options
    /\ pc = p
    /\ proc = NoProc
    /\ exit_code = 0 - 1
    /\ in_aborting = FALSE
    /\ recycle_capture_file = FALSE
    /\ sigdfl = {}
    /\ handle = "open"
    /\ params \in {ParamsOf(n[1], n[2]) : n \in Negotiable}
    /\ params.chunk_size # params.buffer_size
    /\ audiobuf = <<>>
    /\ srcpos = [channel \in 1..opt.channels |-> 0]
    /\ xf = NoXf
    /\ pb = NoPb
    /\ cap = NoCap
    /\ dev = <<>>
    /\ devpos = 0
    /\ fs = {}
    /\ dirs = {}
    /\ inodes = <<>>
    /\ now = 0
    /\ hist = NoHist
    /\ mon = NoMon
    /\ vu = NoVu
    /\ paused = FALSE

InitMonitor == InitPure(MonitorOptions, "monitor")

\* one invocation of the monitor
TestPosition ==
    /\ pc = "monitor"
    /\ \E q \in MonitorInputs(opt.readings) :
        LET m == do_test_position(mon, q, opt, params.buffer_size, now) IN
        /\ m.mon.counter <= MaxSuspicious
        /\ m.mon.samples <= MaxSamples
        /\ mon' = m.mon
        /\ hist' = [hist EXCEPT !.tp = [q |-> q, n |-> 1]]
        /\ IF m.exit
           THEN prg_exit(EXIT_FAILURE)
           ELSE UNCHANGED <<pc, exit_code, handle, proc>>
    /\ UNCHANGED <<opt, vu, paused, sigvars, params, audiobuf, srcpos, xf, pb,
                   cap, dev, devpos, filevars>>

NextMonitor ==
    \/ TestPosition
    \/ Tick

SpecMonitor == InitMonitor /\ [][NextMonitor]_vars

(***************************************************************************)
(* The four transfer modes with --test-position: the monitor runs before   *)
(* and after every device call, the device faults, the queries fail or     *)
(* answer positions inside and outside the envelope.                       *)
(***************************************************************************)
WatchOptions ==
    {[BaseOptions EXCEPT !.stream = st, !.interleaved = i, !.channels = ch,
                         !.srclen = [c \in 1..(IF i THEN 1 ELSE ch) |-> sl],
                         !.sampleslimit = MaxLimit,
                         !.test_position = TRUE,
                         !.readings = rd,
                         !.faults = 1, !.recycles = 0] :
        st \in {"PLAYBACK", "CAPTURE"}, i \in BOOLEAN, ch \in 1..2,
        sl \in {0, MaxLen}, rd \in {{0}, {MaxReading}}}

InitWatch == InitWith({o \in WatchOptions : WellFormed(o)})

NextWatch ==
    \/ Playback
    \/ PlaybackLoop
    \/ PlaybackFill
    \/ PlaybackAfter
    \/ Playbackv
    \/ PlaybackvLoop
    \/ PlaybackvFill
    \/ PlaybackvAfter
    \/ PlaybackEnd
    \/ PlaybackDrain
    \/ Capture
    \/ CaptureOpen
    \/ CaptureLoop
    \/ CaptureAfter
    \/ CaptureClose
    \/ Capturev
    \/ CapturevLoop
    \/ CapturevAfter
    \/ PcmTop
    \/ PcmIo
    \/ Suspend
    \/ MainEnd

SpecWatch == InitWatch /\ [][NextWatch]_vars

(***************************************************************************)
(* The peak meter alone: compute_max_peak() on chunks of samples at and    *)
(* around the ends of the range, for every width it supports.              *)
(***************************************************************************)
PeakFormats ==
    {U8, S8, S16, U16, S24_3, U24_3, S20_3, S18_3, S32, U32, S24, U24, S20}

PeakOptions ==
    {[BaseOptions EXCEPT !.format = f, !.vumeter = vm, !.channels = 2,
                         !.faults = 0, !.recycles = 0] :
        f \in PeakFormats, vm \in {"MONO", "STEREO"}}

\* sample words at the ends and in the middle of the physical range, and
\* around the significant range inside a wider container
Words(f) ==
    LET H == HalfLess1(f.physical_width)
        h == HalfLess1(f.width)
    IN  {(0 - H) - 1, 0 - H, 0 - 1, 0, 1, H}
          \cup (IF f.width < f.physical_width
                THEN {(0 - h) - 1, h, h + 1} ELSE {})

InitPeak == InitPure(PeakOptions, "meter")

\* the first call of the meter, on a chunk
ComputeMaxPeak ==
    /\ pc = "meter"
    /\ vu.calls = 0
    /\ \E n \in 1..MaxPeakLen :
        \E data \in [1..n -> Words(opt.format)] :
            vu' = compute_max_peak(vu, data, opt, now)
    /\ UNCHANGED <<pc, exit_code, opt, mon, paused, sigvars, handle, proc,
                   params, audiobuf, srcpos, xf, pb, cap, dev, devpos,
                   filevars, hist>>

NextPeak == ComputeMaxPeak

SpecPeak == InitPeak /\ [][NextPeak]_vars

(***************************************************************************)
(* The four transfer modes with the peak meter (-V), for an 8-bit format   *)
(* and for one of a width the meter does not support.                      *)
(***************************************************************************)
\* bytes of a source of two frames of the wide format
MaxWide == 16
MeterOptions ==
    {o \in {[BaseOptions EXCEPT !.stream = st, !.interleaved = i,
                                !.channels = ch, !.format = f,
                                !.vumeter = vm,
                                !.srclen = [c \in 1..(IF i THEN 1 ELSE ch)
                                              |-> sl],
                                !.sampleslimit = MaxLimit,
                                !.faults = 0, !.recycles = 0] :
              st \in {"PLAYBACK", "CAPTURE"}, i \in BOOLEAN, ch \in 1..2,
              f \in {U8, FLOAT64}, vm \in {"MONO", "STEREO"},
              sl \in {MaxLen, MaxWide}} :
        \* the capturing device delivers less than a frame of the wide
        \* format; the long source is one of the wide format
        /\ o.format = FLOAT64 => o.stream = "PLAYBACK"
        /\ \A c \in DOMAIN o.srclen :
              o.srclen[c] = MaxWide <=> (o.format = FLOAT64 /\ o.channels = 1)}

InitMeter == InitWith({o \in MeterOptions : WellFormed(o)})

NextMeter ==
    \/ Playback
    \/ PlaybackLoop
    \/ PlaybackFill
    \/ PlaybackAfter
    \/ Playbackv
    \/ PlaybackvLoop
    \/ PlaybackvFill
    \/ PlaybackvAfter
    \/ PlaybackEnd
    \/ PlaybackDrain
    \/ Capture
    \/ CaptureOpen
    \/ CaptureLoop
    \/ CaptureAfter
    \/ CaptureClose
    \/ Capturev
    \/ CapturevLoop
    \/ CapturevAfter
    \/ PcmTop
    \/ PcmIo
    \/ MainEnd

SpecMeter == InitMeter /\ [][NextMeter]_vars

(***************************************************************************)
(* The four transfer modes with -i on a terminal: keys arrive, the device  *)
(* can pause or not, is found suspended or not, its pause calls fail or    *)
(* not.                                                                    *)
(***************************************************************************)
PauseOptions ==
    {[BaseOptions EXCEPT !.stream = st, !.interleaved = i, !.channels = ch,
                         !.srclen = [c \in 1..(IF i THEN 1 ELSE ch)
                                       |-> MaxLen],
                         !.sampleslimit = MaxLimit, !.interactive = TRUE,
                         !.keys = MaxKeys, !.can_pause = cp,
                         !.faults = 1, !.recycles = 0] :
        st \in {"PLAYBACK", "CAPTURE"}, i \in BOOLEAN, ch \in 1..2,
        cp \in BOOLEAN}

InitPause == InitWith({o \in PauseOptions : WellFormed(o)})

NextPause ==
    \/ Playback
    \/ PlaybackLoop
    \/ PlaybackFill
    \/ PlaybackAfter
    \/ Playbackv
    \/ PlaybackvLoop
    \/ PlaybackvFill
    \/ PlaybackvAfter
    \/ PlaybackEnd
    \/ PlaybackDrain
    \/ Capture
    \/ CaptureOpen
    \/ CaptureLoop
    \/ CaptureAfter
    \/ CaptureClose
    \/ Capturev
    \/ CapturevLoop
    \/ CapturevAfter
    \/ PcmTop
    \/ CheckStdin
    \/ Paused
    \/ PcmIo
    \/ Suspend
    \/ MainEnd

SpecPause == InitPause /\ [][NextPause]_vars

(***************************************************************************)
(* Properties.                                                             *)
(***************************************************************************)
\* L rounded up to a whole chunk of cb bytes
ChunkRoundUp(L, cb) == ((L + cb - 1) \div cb) * cb

\* the run was an interleaved playback that met no device fault and no
\* abort and ended through the end of main
CleanPlayback ==
    /\ pc = "exited"
    /\ exit_code = EXIT_SUCCESS
    /\ opt.stream = "PLAYBACK"
    /\ opt.interleaved
    /\ opt.timelimit = 0 /\ opt.sampleslimit = 0
    /\ hist.nfaults = 0
    /\ ~in_aborting

(* C1: after a playback of a source of L bytes with no fault, no abort and *)
(* no limit, the device has accepted L rounded up to a whole chunk, and    *)
(* every accepted byte beyond the first L is the silence pattern.          *)
C1_Conservation ==
    CleanPlayback =>
        /\ Len(dev) = ChunkRoundUp(opt.srclen[1], params.chunk_bytes)
        /\ \A i \in 1..Len(dev) : i > opt.srclen[1] => dev[i] = Silence

(* C2: in each transfer loop a device call that returns -EPIPE advances    *)
(* nothing: the loop's result is always the number of frames the device    *)
(* transferred, result + count is the request, the cursor is at the        *)
(* transferred bytes; a request that ends without abort has transferred    *)
(* exactly the requested frames; and while the process runs every -EPIPE   *)
(* has produced exactly one recovery line.                                 *)
C2_FaultTransparent ==
    /\ InTransfer =>
          /\ xf.result = xf.xfer
          /\ xf.xfer + xf.count = xf.req
          /\ ~IsPlanar(xf.fn) =>
                xf.data = (xf.xfer * params.bits_per_frame) \div 8
    /\ (pc = "pcm_ret" /\ ~in_aborting) => xf.xfer = xf.req
    /\ pc # "exited" => hist.xrunlog = hist.nepipe

\* a request met an -EPIPE, recovered, and completed
C2_Witness ==
    /\ pc = "pcm_ret"
    /\ xf.nfault >= 1
    /\ hist.xrunlog >= 1
    /\ xf.req >= 2
    /\ xf.xfer = xf.req
    /\ ~in_aborting

(* C3: a transfer request returns the number of frames the device          *)
(* transferred during it, and a request the abort flag ended early returns *)
(* less than the requested count.                                          *)
C3_ReturnsTransferred ==
    pc = "pcm_ret" =>
        /\ xf.ret = xf.xfer
        /\ (xf.count > 0 /\ xf.rcount = xf.req) => xf.ret < xf.rcount

(* C10: a process that got SIGINT or SIGTERM during a transfer exits with  *)
(* a non-zero status.                                                      *)
C10_AbortExitsNonZero ==
    (pc = "exited" /\ hist.abort_in_xfer) => exit_code # EXIT_SUCCESS

\* capture() writes to a named file
NamedCapture ==
    /\ opt.stream = "CAPTURE"
    /\ opt.interleaved
    /\ opt.name # <<>> /\ opt.name # <<"-">>

\* the names in the directory
Names(dir) == {e[1] : e \in dir}

\* the bytes 1 .. n of the captured stream
Stream(n) == [i \in 1..n |-> i]

(* C4: with max_file_time set, no capture file grows beyond                *)
(* max_file_time x rate x bytes per frame bytes.                           *)
C4_SizeRotation ==
    (NamedCapture /\ opt.max_file_time > 0) =>
        \A i \in 1..Len(inodes) : Len(inodes[i]) <= cap.max_file_size

(* C5 as stated: a session with no size limit that ended normally and got  *)
(* exactly one rotation request, delivered while the chunk loop ran, has   *)
(* produced exactly 2 files.                                               *)
C5_OneRequestTwoFiles ==
    (/\ NamedCapture /\ opt.max_file_time = 0
     /\ pc = "exited" /\ exit_code = EXIT_SUCCESS
     /\ hist.nrecycle = 1 /\ hist.recycle_in_loop)
        => Len(hist.opened) = 2

(* C5 as amended: with no size limit, no abort and exactly one rotation    *)
(* request, at most 2 files are opened; a second file is opened only after *)
(* the chunk loop observed the request with bytes left to capture, the     *)
(* first file then holds exactly the whole chunks written before that, and *)
(* the two files together are the captured stream in order; a session that *)
(* ends normally after such an observation has produced exactly 2 files.   *)
C5_RotationSplit ==
    (/\ NamedCapture /\ opt.max_file_time = 0
     /\ hist.nrecycle = 1 /\ ~in_aborting)
        => /\ Len(hist.opened) <= 2
           /\ Len(hist.opened) = 2 =>
                /\ hist.observed >= 0
                /\ hist.observed % params.chunk_bytes = 0
                /\ inodes[1] = Stream(hist.observed)
                /\ inodes[1] \o inodes[2]
                      = Stream(Len(inodes[1]) + Len(inodes[2]))
           /\ (pc = "exited" /\ exit_code = EXIT_SUCCESS
                  /\ hist.observed >= 0) => Len(hist.opened) = 2

\* one request split a recording of several chunks into two non-empty files
C5_Witness ==
    /\ NamedCapture /\ opt.max_file_time = 0
    /\ hist.nrecycle = 1 /\ ~in_aborting
    /\ pc = "exited" /\ exit_code = EXIT_SUCCESS
    /\ Len(hist.opened) = 2
    /\ Len(inodes[1]) > 0 /\ Len(inodes[2]) > 0
    /\ hist.nfaults > 0

\* rec-0j.wav, written out
RecN(j) == <<"r", "e", "c", "-", "0", DigitChar[j + 1], ".", "w", "a", "v">>

\* counter-based capture to a named file that no other process touched
CounterBased ==
    NamedCapture /\ ~opt.use_strftime /\ hist.nextrm = 0

(* C6: counter-based rotation of rec.wav: the first file is opened as      *)
(* rec.wav and is the only file until the first rotation; from then on the *)
(* k-th file opened is rec-0k.wav, rec.wav is gone, and the files that     *)
(* exist are rec-01.wav (the renamed first file) .. rec-0k.wav.            *)
C6_CounterNames ==
    (CounterBased /\ opt.name = REC_WAV) =>
        LET k == Len(hist.opened) IN
        /\ k >= 1 => hist.opened[1] = REC_WAV
        /\ k = 1 => Names(fs) = {REC_WAV}
        /\ \A j \in 2..k : hist.opened[j] = RecN(j)
        /\ k >= 2 => /\ Names(fs) = {RecN(j) : j \in 1..k}
                     /\ InodeOf(fs, RecN(1)) = 1
                     /\ \A j \in 2..k : InodeOf(fs, RecN(j)) = j

\* rec.wav was rotated twice: rec-01.wav, rec-02.wav, rec-03.wav exist
C6_Witness ==
    /\ CounterBased /\ opt.name = REC_WAV
    /\ Len(hist.opened) = 3
    /\ Names(fs) = {RecN(1), RecN(2), RecN(3)}

\* the base name has no '.' after its last '/'
NoExtension(name) ==
    \A i \in 1..Len(name) :
        name[i] = "." => \E j \in (i + 1)..Len(name) : name[j] = "/"

(* C7: counter-based rotation of a base name without extension renames the *)
(* first file to <name>-01 and opens the k-th file as <name>-0k.            *)
C7_NoExtensionNames ==
    (CounterBased /\ NoExtension(opt.name)) =>
        LET k == Len(hist.opened) IN
        /\ \A j \in 2..k :
              hist.opened[j] = opt.name \o <<"-", "0", DigitChar[j + 1]>>
        /\ k >= 2 => <<opt.name \o <<"-", "0", "1">>, 1>> \in fs

(* C8: in counter-based mode the file index starts at 1 and grows with     *)
(* every file opened, whatever other processes remove: the j-th file has   *)
(* index j, the file count is ahead of every index used, and no two files  *)
(* are opened under the same name.                                         *)
C8_IndexIncreases ==
    (NamedCapture /\ ~opt.use_strftime) =>
        LET k == Len(hist.index) IN
        /\ \A j \in 1..k : hist.index[j] = j
        /\ \A j \in 1..k : hist.index[j] <= cap.filecount
        /\ k >= 2 => cap.filecount = k + 1
        /\ \A i, j \in 1..k : i # j => hist.opened[i] # hist.opened[j]

\* three files were opened after another process removed one
C8_Witness ==
    /\ NamedCapture /\ ~opt.use_strftime
    /\ hist.nextrm > 0
    /\ Len(hist.index) = 3

\* the template, token by token: %v is the index as two digits, any other
\* %-pair, and any other character, goes to the calendar-time formatter
RECURSIVE ExpandTemplate(_, _, _)
ExpandTemplate(t, idx, tm) ==
    IF t = <<>> THEN <<>>
    ELSE IF Len(t) >= 2 /\ t[1] = "%"
    THEN (IF t[2] = "v"
          THEN <<DigitChar[(idx \div 10) + 1], DigitChar[(idx % 10) + 1]>>
          ELSE strftime(SubSeq(t, 1, 2), tm))
            \o ExpandTemplate(SubSeq(t, 3, Len(t)), idx, tm)
    ELSE strftime(<<t[1]>>, tm) \o ExpandTemplate(Tail(t), idx, tm)

(* C9: with use_strftime the j-th file opened, the first included, is      *)
(* named by the template expanded with index j (as two digits for %v) at   *)
(* the time of the open, and every file that exists still has the name it  *)
(* was opened under (none is renamed).                                     *)
C9_PatternNames ==
    (NamedCapture /\ opt.use_strftime) =>
        /\ \A j \in 1..Len(hist.opened) :
              hist.opened[j]
                 = ExpandTemplate(opt.name, j, hist.opentime[j])
        /\ \A e \in fs : e[1] = hist.opened[e[2]]

\* the third file of the template %S-%v, opened in second 1, is 01-03
C9_Witness ==
    /\ NamedCapture /\ opt.use_strftime
    /\ opt.name = PAT_SEC_V
    /\ Len(hist.opened) = 3
    /\ hist.opened[3] = <<"0", "1", "-", "0", "3">>
    /\ hist.opened[1] = <<"0", "0", "-", "0", "1">>

C12_HandlersOnlyFlag ==
    hist.handler = {}

\* C13: every termination by a fatal condition after the device was opened
\* goes through prg_exit, which closes the device handle, restores the
\* terminal mode if it was altered and removes the pid file if it was
\* written; no fatal path exits any other way.
C13_FatalExitsCleanUp ==
    (/\ pc = "exited"
     /\ exit_code = EXIT_FAILURE
     /\ handle # "none") =>
        /\ proc.ended = "prg_exit"
        /\ handle = "closed"
        /\ proc.icanon
        /\ ~proc.pidfile

\* the transfer loop has control again after a recovery, with the cursor
\* and the counters it had before the failed device call, and the request
\* is not complete: the next device call is the same request
RetriesSameRequest ==
    /\ pc \in {"pcm_top", "pcm_io"}
    /\ Counters(xf) = hist.rec.before
    /\ xf.count > 0

\* the last device call ended in xrun(), which found the state XRUN
InXrunRecovery ==
    /\ hist.rec.what = "xrun"
    /\ hist.rec.statusok
    /\ hist.rec.state = "XRUN"

\* C14 (as stated): recovery with the status XRun and without fatal-errors
\* re-primes the device exactly once and control returns to the transfer
\* loop, which retries the same request.
C14_XrunAlwaysRetries ==
    (InXrunRecovery /\ ~opt.fatal_errors /\ ~in_aborting) =>
        /\ hist.rec.prepares = 1
        /\ RetriesSameRequest

\* C14 (amended): recovery with the status XRun: with fatal-errors the
\* process terminates with failure and the device is not re-primed;
\* otherwise the device is re-primed exactly once, and the process
\* terminates with failure if that re-prime fails; if it succeeds control
\* returns to the transfer loop, which retries the same request unless an
\* abort was flagged.
C14_XrunRecovery ==
    InXrunRecovery =>
        IF opt.fatal_errors
        THEN /\ pc = "exited"
             /\ exit_code = EXIT_FAILURE
             /\ hist.rec.prepares = 0
        ELSE /\ hist.rec.prepares = 1
             /\ IF ~hist.rec.prepareok
                THEN pc = "exited" /\ exit_code = EXIT_FAILURE
                ELSE in_aborting \/ RetriesSameRequest

\* C14 witness: a playback request is about to be retried after a
\* recovered underrun that came after part of the chunk was accepted
C14_Witness ==
    /\ InXrunRecovery
    /\ ~opt.fatal_errors
    /\ opt.stream = "PLAYBACK"
    /\ pc = "pcm_io"
    /\ hist.rec.prepareok
    /\ xf.result > 0
    /\ RetriesSameRequest

\* C15: recovery during capture with the device status Draining logs the
\* condition, re-primes the device and returns so that the loop retries
\* the request; the process does not terminate unless the re-prime itself
\* fails.
C15_DrainingInCapture ==
    (/\ hist.rec.what = "xrun"
     /\ hist.rec.statusok
     /\ hist.rec.state = "DRAINING"
     /\ opt.stream = "CAPTURE") =>
        /\ hist.rec.log = "draining"
        /\ hist.rec.prepares = 1
        /\ IF hist.rec.prepareok
           THEN in_aborting \/ RetriesSameRequest
           ELSE pc = "exited" /\ exit_code = EXIT_FAILURE

\* C15 witness: a capture request is about to be retried after the device
\* reported DRAINING and was re-primed
C15_Witness ==
    /\ hist.rec.what = "xrun"
    /\ hist.rec.state = "DRAINING"
    /\ opt.stream = "CAPTURE"
    /\ hist.rec.log = "draining"
    /\ hist.rec.prepareok
    /\ ~in_aborting
    /\ pc = "pcm_io"
    /\ RetriesSameRequest

\* C17: a status query that fails during recovery terminates the process
\* with failure; the device is not re-primed and the transfer is not
\* retried.
C17_StatusFailureIsFatal ==
    (hist.rec.what = "xrun" /\ ~hist.rec.statusok) =>
        /\ pc = "exited"
        /\ exit_code = EXIT_FAILURE
        /\ hist.rec.prepares = 0
        /\ Counters(xf) = hist.rec.before

\* C17 witness: the process ended in xrun() on a failed status query, in
\* the middle of a request part of which was transferred
C17_Witness ==
    /\ hist.rec.what = "xrun"
    /\ ~hist.rec.statusok
    /\ pc = "exited"
    /\ xf.r = 0 - EPIPE
    /\ xf.result > 0
    /\ xf.count > 0

\* the last device call reported the device suspended
InSuspendRecovery == hist.rec.what = "suspend"

\* C16 (as stated): recovery of a suspended device ends, after a resume or
\* after a re-prime, with control back in the transfer loop, which retries
\* the same request with the cursor and the remaining count unchanged.
C16_SuspendAlwaysRetries ==
    (InSuspendRecovery /\ pc # "suspend" /\ ~in_aborting) =>
        RetriesSameRequest

\* C16 (amended): recovery of a suspended device calls resume again,
\* after a sleep, as long as the device answers try-again; when the device
\* reports resumed it returns without a re-prime; on a definitive resume
\* failure it re-primes the device once, and the process terminates with
\* failure if that re-prime fails; otherwise control returns to the
\* transfer loop, which retries the same request with the cursor and the
\* remaining count unchanged unless an abort was flagged.
C16_SuspendRecovery ==
    InSuspendRecovery =>
        /\ Counters(xf) = hist.rec.before
        /\ hist.rec.res = 0 - EAGAIN =>
              /\ hist.rec.sleeps > 0
              /\ pc = "suspend" \/ in_aborting
        /\ hist.rec.prepares = IF hist.rec.res \in {0, 0 - EAGAIN} THEN 0 ELSE 1
        /\ (pc # "suspend" /\ hist.rec.res = 0) =>
              in_aborting \/ RetriesSameRequest
        /\ hist.rec.prepares = 1 =>
              IF hist.rec.prepareok
              THEN in_aborting \/ RetriesSameRequest
              ELSE pc = "exited" /\ exit_code = EXIT_FAILURE

\* C16 witness: a request part of which was transferred is about to be
\* retried after the device answered try-again MaxSleeps times and then
\* failed to resume, and was re-primed
C16_Witness ==
    /\ InSuspendRecovery
    /\ hist.rec.sleeps = MaxSleeps
    /\ hist.rec.res = 0 - ENOSYS
    /\ hist.rec.prepareok
    /\ ~in_aborting
    /\ pc = "pcm_io"
    /\ xf.result > 0
    /\ RetriesSameRequest

\* the last result of the device call of the transfer loop is negative and
\* is none of would-block, underrun/overrun, suspended
FatalResult ==
    /\ hist.rec.what # ""
    /\ hist.rec.r < 0
    /\ hist.rec.r \notin {0 - EAGAIN, 0 - EPIPE, 0 - ESTRPIPE}

\* C18: in every transfer loop a negative device result other than
\* would-block, underrun/overrun and suspended terminates the process with
\* failure: the transfer is not retried and there is no further device
\* I/O, the counters stay those of the failed call.
C18_OtherErrorsAreFatal ==
    FatalResult =>
        /\ pc = "exited"
        /\ exit_code = EXIT_FAILURE
        /\ proc.ended = "prg_exit"
        /\ hist.rec.what = "fatal"
        /\ Counters(xf) = hist.rec.before

\* C18 witness: a planar playback request ended the process on -EIO after
\* part of it was accepted
C18_Witness ==
    /\ FatalResult
    /\ xf.fn = "pcm_writev"
    /\ xf.result > 0
    /\ xf.count > 0
    /\ pc = "exited"

\* the loop has control right after a device call
AfterDeviceCall == pc = "pcm_top" /\ hist.rec.what # ""

\* C19: at the top of each iteration of a transfer loop the frames
\* transferred plus the frames remaining are the request size, which is
\* the chunk size, and the interleaved cursor is the buffer start plus the
\* frames transferred; a would-block or short result causes exactly one
\* wait, none with test_nowait, and no other result causes a wait; a
\* positive result r advances the cursor and the counters by exactly r,
\* any other result leaves them alone.
C19_LoopAccounting ==
    /\ pc = "pcm_top" =>
          /\ xf.req = params.chunk_size
          /\ xf.result + xf.count = xf.req
          /\ ~IsPlanar(xf.fn) =>
                xf.data = (xf.result * params.bits_per_frame) \div 8
    /\ AfterDeviceCall =>
          LET r == hist.rec.r
              before == hist.rec.before
              adv == IF r > 0 THEN r ELSE 0
              short == r = 0 - EAGAIN \/ (r >= 0 /\ r < before[1])
          IN  /\ xf.count = before[1] - adv
              /\ xf.result = before[2] + adv
              /\ xf.data = before[3] + (IF IsPlanar(xf.fn) THEN 0
                              ELSE (adv * params.bits_per_frame) \div 8)
              /\ hist.rec.waits =
                    IF short /\ ~opt.test_nowait THEN 1 ELSE 0

\* C19 witness: with test_nowait a short positive result advanced the loop
\* by its r frames and caused no wait
C19_Witness ==
    /\ AfterDeviceCall
    /\ opt.test_nowait
    /\ hist.rec.r > 0
    /\ xf.result = hist.rec.r
    /\ xf.count > 0
    /\ hist.rec.waits = 0

\* interleaved playback after set_params
InPlayback ==
    /\ opt.stream = "PLAYBACK"
    /\ opt.interleaved
    /\ params.chunk_bytes > 0

\* the bytes of the source that make whole frames
SourceFrames ==
    LET bpf == params.bits_per_frame \div 8
    IN  (opt.srclen[1] \div bpf) * bpf

\* C20: what the device has accepted during playback is at every moment
\* the source bytes in file order, as far as they go, followed by nothing
\* but silence, whatever partial transfers, would-block results and
\* recovered faults occurred; and nothing is read from the source beyond
\* the chunk that the device has not fully accepted.
C20_DeviceGetsSourceInOrder ==
    InPlayback =>
        /\ \A i \in 1..Len(dev) :
              dev[i] = IF i <= SourceFrames THEN SrcByte(0, i) ELSE Silence
        /\ srcpos[1] <=
              (Len(dev) \div params.chunk_bytes + 1) * params.chunk_bytes

\* C20 witness: the second chunk of a playback, the rest of the source
\* padded with silence, was accepted after an underrun that was recovered
\* and in more than one part
C20_Witness ==
    /\ InPlayback
    /\ pc = "pcm_top"
    /\ xf.count = 0
    /\ xf.nfault >= 1
    /\ hist.rec.what = "ok"
    /\ hist.rec.before[2] > 0
    /\ Len(dev) > params.chunk_bytes
    /\ dev[1] = SrcByte(0, 1)
    /\ dev[Len(dev)] = Silence
    /\ srcpos[1] = opt.srclen[1]
    /\ opt.srclen[1] % params.chunk_bytes # 0

\* a step of a rotation of capture(): from the end of the chunk loop of
\* one file to the chunk loop of the next
RotationStep ==
    /\ pc \in {"cap_close", "cap_open"}
    /\ pc' \in {"cap_open", "cap_loop"}

\* C21: a rotation does not start the recording session again: no step of
\* a capture session after its set_params changes the stream parameters,
\* a rotation changes neither the bytes left of the session nor the
\* position of the device stream, and the only counter it resets is the
\* byte counter of the file, which is 0 when the next chunk loop starts.
C21_RotationKeepsSession ==
    [][/\ (opt.stream = "CAPTURE" /\ pc # "main") => params' = params
       /\ RotationStep =>
             /\ cap'.count = cap.count
             /\ devpos' = devpos
             /\ audiobuf' = audiobuf
             /\ pc' = "cap_loop" =>
                   /\ cap'.fdcount = 0
                   /\ cap'.rest = cap'.count]_vars

\* C21 witness: the chunk loop of a second file starts after a rotation
\* request, in a session with a byte limit part of which is used up
C21_Witness ==
    /\ NamedCapture
    /\ pc = "cap_loop"
    /\ cap.filecount >= 2
    /\ cap.fdcount = 0
    /\ hist.nrecycle >= 1
    /\ devpos > 0
    /\ cap.count > 0
    /\ cap.count < capture_count(opt)
    /\ capture_count(opt) < LLONG_MAX - 1

\* C22: when the open of a capture target fails because parent directories
\* do not exist, the missing directories are created before a failure is
\* reported, with the counter names as well as with the time templates.
C22_OpenCreatesDirectories ==
    (hist.openfail /\ hist.enoent) => hist.create_path

\* the bytes a duration limit allows: d x rate x channels x bytes per sample
LimitBytes ==
    opt.timelimit * opt.rate * opt.channels * (bits_per_sample \div 8)

\* an interleaved playback with a duration limit, from a source longer
\* than the limit, ended with no device fault and no abort
LimitedPlaybackDone ==
    /\ pc = "exited"
    /\ opt.stream = "PLAYBACK"
    /\ opt.interleaved
    /\ opt.timelimit > 0
    /\ opt.srclen[1] > LimitBytes
    /\ params.chunk_bytes > 0
    /\ hist.nfaults = 0
    /\ ~in_aborting

\* C23 (as stated): such a playback has transferred exactly the bytes the
\* limit allows, for every negotiated chunk size, has drained the device
\* and exits with status 0.
C23_ExactlyTheLimit ==
    LimitedPlaybackDone =>
        /\ Len(dev) = LimitBytes
        /\ hist.drained
        /\ exit_code = EXIT_SUCCESS

\* C23 (amended): such a playback has read exactly the bytes the limit
\* allows from the source and the device has accepted them in order,
\* followed by silence up to a whole chunk, which is nothing when the
\* chunk size divides the limit; it has drained the device and exits with
\* status 0.
C23_LimitRoundedUpToChunk ==
    LimitedPlaybackDone =>
        /\ srcpos[1] = LimitBytes
        /\ Len(dev) = ChunkRoundUp(LimitBytes, params.chunk_bytes)
        /\ \A i \in 1..Len(dev) :
              dev[i] = IF i <= LimitBytes THEN SrcByte(0, i) ELSE Silence
        /\ LimitBytes % params.chunk_bytes = 0 => Len(dev) = LimitBytes
        /\ hist.drained
        /\ exit_code = EXIT_SUCCESS

\* C23 witness: a playback limited to 3 bytes of a longer source ended
\* after two chunks of 2 bytes
C23_Witness ==
    /\ LimitedPlaybackDone
    /\ LimitBytes = 3
    /\ params.chunk_bytes = 2
    /\ Len(dev) = 4
    /\ exit_code = EXIT_SUCCESS

TpRead == hist.tp.n = 1 /\ hist.tp.q.err1 = 0 /\ hist.tp.q.err2 = 0
\* one of its four readings lies outside the envelope
TpFar ==
    LET lim == (opt.test_coef * params.buffer_size) \div 2
        far(v) == v > lim \/ v < 0 - lim
    IN  far(hist.tp.q.avail) \/ far(hist.tp.q.delay)
           \/ far(hist.tp.q.savail) \/ far(hist.tp.q.sdelay)
\* in capture, available exceeds delay in one of the two queries
TpAhead ==
    /\ opt.stream = "CAPTURE"
    /\ hist.tp.q.avail > hist.tp.q.delay
          \/ hist.tp.q.savail > hist.tp.q.sdelay
\* sum, sample count, maximum and minimum are at their reset values
AccumulatorsReset ==
    /\ mon.availsum = 0 /\ mon.delaysum = 0 /\ mon.samples = 0
    /\ mon.maxavail = 0 /\ mon.maxdelay = 0
    /\ mon.minavail = params.buffer_size * 16
    /\ mon.mindelay = params.buffer_size * 16
\* sum, sample count, maximum and minimum are as before the invocation
AccumulatorsKept ==
    /\ mon'.availsum = mon.availsum
    /\ mon'.delaysum = mon.delaysum
    /\ mon'.samples = mon.samples
    /\ mon'.maxavail = mon.maxavail
    /\ mon'.maxdelay = mon.maxdelay
    /\ mon'.minavail = mon.minavail
    /\ mon'.mindelay = mon.mindelay

\* a step that is an invocation of the monitor (the clock stands still)
MonitorStep == pc = "monitor" /\ now' = now

\* C25 as claimed: an invocation with a reading outside the envelope, or
\* in capture with available above delay, adds one to the suspicious
\* counter and resets the accumulators; any other invocation leaves the
\* counter alone.
C25_SuspiciousCountsAndResets ==
    [][MonitorStep =>
        IF TpRead' /\ (TpFar' \/ TpAhead')
        THEN mon'.counter = mon.counter + 1 /\ AccumulatorsReset'
        ELSE mon'.counter = mon.counter]_vars

\* C25 amended: an invocation one of whose queries fails changes nothing;
\* with a reading outside the envelope the counter grows by one and the
\* accumulators are reset; otherwise, in capture with available above
\* delay, the counter grows by one and the accumulators are kept; any
\* other invocation leaves the counter alone.
C25_OnlyOutOfRangeResets ==
    [][MonitorStep =>
        IF ~TpRead'
        THEN mon' = mon
        ELSE IF TpFar'
        THEN mon'.counter = mon.counter + 1 /\ AccumulatorsReset'
        ELSE IF TpAhead'
        THEN mon'.counter = mon.counter + 1 /\ AccumulatorsKept
        ELSE mon'.counter = mon.counter]_vars

\* C25 witness: in capture, an invocation inside the envelope read
\* available above delay and was counted, and the statistics accumulated
\* before it are still there
C25_Witness ==
    /\ pc = "monitor"
    /\ TpRead /\ ~TpFar /\ TpAhead
    /\ mon.samples > 0
    /\ mon.counter > 0


(***************************************************************************)
(* C24: the monitor observes only.                                         *)
(***************************************************************************)
\* C24: with --test-position, every pass of a transfer loop's body does to
\* the cursor, the counters, the buffer, the device stream and the process
\* exactly what the pass without the monitor does for the same device
\* result, whatever the monitor's queries answer.
C24_MonitorObservesOnly ==
    [][(pc = "pcm_io" /\ opt.test_position) => PcmCall(hist'.tp)]_vars

\* C24 witness: a monitored transfer ran to its normal end although the
\* monitor counted a suspicious position and its last status query failed
C24_Witness ==
    /\ opt.test_position
    /\ pc = "exited" /\ exit_code = 0
    /\ mon.counter > 0
    /\ hist.tp.n = 1 /\ hist.tp.q.err2 < 0
    /\ xf.xfer > 0


(***************************************************************************)
(* C26: the range of the peak percentage.                                  *)
(***************************************************************************)
\* the sample word, silence removed, is the one value of magnitude full
\* scale: -2^(width-1), e.g. 0x80000000 of a 32-bit format
AtFullScale(word, f) ==
    xor_mask(word, f.physical_width, silence_bit(f))
        = (0 - HalfLess1(f.width)) - 1
\* the positions of the chunk that count for channel c of the meter
MeterPositions(c) ==
    {i \in 1..Len(vu.data) :
        set_params_vumeter(opt) # "STEREO" \/ (i - 1) % 2 = c - 1}

\* C26: the percentage the meter computes for a channel is in 0..100 when
\* no sample of the channel is at the full-scale boundary, and is above
\* 100 only if a sample of the channel is the literal boundary value.
C26_PeakPercentRange ==
    (pc = "meter" /\ vu.calls = 1) =>
        \A c \in DOMAIN vu.perc :
            LET boundary == \E i \in MeterPositions(c) :
                                AtFullScale(vu.data[i], opt.format)
            IN  /\ ~boundary => vu.perc[c] \in 0..100
                /\ vu.perc[c] > 100 => boundary

\* C26 witness: a 32-bit chunk holding 0x80000000 was metered, at 100
C26_Witness ==
    /\ pc = "meter" /\ vu.calls = 1
    /\ opt.format = S32
    /\ \E i \in MeterPositions(1) : vu.data[i] = (0 - INT_MAX) - 1
    /\ vu.perc[1] = 100


(***************************************************************************)
(* C27, C28: the peak meter in the transfer loops.                         *)
(***************************************************************************)
\* C27: on a stream of a width the meter does not support, every metered
\* pass of a transfer loop does to the transfer what the pass without the
\* meter does, and after it the unsupported-width message has been written
\* once in all, and no meter line.
C27_UnsupportedWidthOnce ==
    [][(pc = "pcm_io" /\ set_params_vumeter(opt) # "NONE"
        /\ ~Supported(opt.format)) =>
          /\ PcmCall(hist'.tp)
          /\ vu'.calls = 1 => (vu'.msgs = 1 /\ ~vu'.out)]_vars

\* C27 witness: a transfer of the wide format ended normally after more
\* than one chunk went through the meter, with one message
C27_Witness ==
    /\ ~Supported(opt.format)
    /\ pc = "exited" /\ exit_code = 0
    /\ Len(dev) > params.chunk_bytes
    /\ vu.calls = 1 /\ vu.msgs = 1

\* C28: after a device call that moved frames, the meter was handed the
\* bytes of exactly these frames.
C28_MeterGetsTransferred ==
    vu.calls = 1 => vu.handed = vu.moved


(***************************************************************************)
(* C29: pause and release from the keyboard.                               *)
(***************************************************************************)
\* this step read a key; the key is a space or a carriage return
KeyRead == hist'.kb.n = hist.kb.n + 1
PauseKeyRead == KeyRead /\ hist'.kb.key \in {" ", "\r"}
\* no device call, and the cursor and the counts of the loop stay
NoTransfer == UNCHANGED <<xf, dev, devpos, audiobuf>>

\* C29 as claimed: a space or carriage return read before a device call
\* pauses a device that can pause, and is passed over, the transfer
\* going on unpaused, by one that cannot; while paused there is no device
\* I/O and another key changes nothing; a space or carriage return then
\* lets the transfer go on with the cursor and the counts it had.
C29_PauseAndRelease ==
    [][/\ (pc = "check_stdin" /\ PauseKeyRead) =>
            /\ NoTransfer
            /\ IF opt.can_pause
               THEN pc' = "paused" /\ paused'
               ELSE pc' = "check_stdin" /\ ~paused'
       /\ pc = "paused" =>
            /\ NoTransfer
            /\ IF PauseKeyRead
               THEN pc' = "check_stdin"
               ELSE pc' = "paused" /\ paused']_vars

\* C29 amended: as claimed, but a pause request the device refuses
\* (snd_pcm_pause fails) leaves the transfer going on unpaused, and a
\* device found suspended that cannot be re-primed, at the pause or at the
\* release, ends the process with failure.
C29_PauseUnlessRefused ==
    [][/\ (pc = "check_stdin" /\ PauseKeyRead) =>
            /\ NoTransfer
            /\ IF ~opt.can_pause
               THEN pc' = "check_stdin" /\ ~paused'
               ELSE IF hist'.kb.log = "prepare error"
               THEN pc' = "exited" /\ exit_code' = EXIT_FAILURE
               ELSE IF hist'.kb.log = "push error"
               THEN pc' = "check_stdin" /\ ~paused'
               ELSE pc' = "paused" /\ paused'
       /\ pc = "paused" =>
            /\ NoTransfer
            /\ IF PauseKeyRead
               THEN IF hist'.kb.log = "prepare error"
                    THEN pc' = "exited" /\ exit_code' = EXIT_FAILURE
                    ELSE pc' = "check_stdin"
               ELSE pc' = "paused" /\ paused']_vars

\* C29 witness: a transfer that was paused in the middle of a request,
\* passed over another key while paused and was released, ended normally
\* with the whole request transferred
C29_Witness ==
    /\ pc = "exited" /\ exit_code = 0
    /\ hist.kb.pauses = 1 /\ hist.kb.other /\ hist.kb.log = "released"
    /\ ~paused
    /\ Len(dev) > 0 \/ devpos > 0

(***************************************************************************)
(* xwrite() alone: the loop of write() calls on a buffer, where each call  *)
(* accepts some of the bytes offered, none, or fails.                      *)
(***************************************************************************)
\* the bytes one write(fd, buf + offset, count - offset) accepts when the
\* kernel answers a > 0: never more than it was offered
accepted(a, count, offset) == Min2(a, count - offset)

\* an xwrite that offers the buffer from its start on every call
RECURSIVE xwrite_restarts(_, _, _, _, _)
xwrite_restarts(file, buf, count, offset, answers) ==
    IF offset < count
    THEN LET written == IF Head(answers) <= 0 THEN Head(answers)
                        ELSE accepted(Head(answers), count, offset)
         IN  IF written <= 0
             THEN [file |-> file, ret |-> written, calls |-> 1]
             ELSE LET rest == xwrite_restarts(
                                  file \o SubSeq(buf, 1, written), buf,
                                  count, offset + written, Tail(answers))
                  IN  [rest EXCEPT !.calls = @ + 1]
    ELSE [file |-> file, ret |-> offset, calls |-> 0]

\* "while (offset < count) { written = write(fd, buf + offset,
\* count - offset); if (written <= 0) return written; offset += written; }
\* return offset;": the file, the value returned and the number of write()
\* calls, for the answers the kernel gives to the successive calls
RECURSIVE xwrite_from(_, _, _, _, _)
xwrite_from(file, buf, count, offset, answers) ==
    IF offset < count
    THEN LET written == IF Head(answers) <= 0 THEN Head(answers)
                        ELSE accepted(Head(answers), count, offset)
         IN  IF written <= 0
             THEN [file |-> file, ret |-> written, calls |-> 1]
             ELSE LET rest == xwrite_from(
                                  file \o SubSeq(buf, offset + 1,
                                                 offset + written), buf,
                                  count, offset + written, Tail(answers))
                  IN  [rest EXCEPT !.calls = @ + 1]
    ELSE [file |-> file, ret |-> offset, calls |-> 0]

XwriteOptions == {[BaseOptions EXCEPT !.stream = "CAPTURE"]}

InitXwrite == InitPure(XwriteOptions, "xwrite")

\* one call xwrite(fd, buf, count) on a file that holds `before`; xf keeps
\* the call and its result
Xwrite ==
    /\ pc = "xwrite"
    /\ \E n \in 0..MaxLen, before \in {<<>>, <<Silence>>} :
        \E count \in 0..n :
            \E answers \in [1..count -> (0 - 1)..count] :
                LET buf == [i \in 1..n |-> SrcByte(1, i)]
                    x == xwrite_from(before, buf, count, 0, answers)
                IN  /\ audiobuf' = buf
                    /\ inodes' = <<x.file>>
                    /\ xf' = [fn |-> "xwrite", count |-> count,
                              before |-> before, answers |-> answers,
                              ret |-> x.ret, calls |-> x.calls]
    /\ pc' = "xwrite_ret"
    /\ UNCHANGED <<exit_code, opt, mon, vu, paused, sigvars, handle, proc,
                   params, srcpos, pb, cap, dev, devpos, fs, dirs, now, hist>>

NextXwrite == Xwrite

SpecXwrite == InitXwrite /\ [][NextXwrite]_vars

\* the bytes the write() calls accepted, counted from the kernel's answers
RECURSIVE XwriteTaken(_, _)
XwriteTaken(i, sofar) ==
    IF i > xf.calls \/ xf.answers[i] <= 0 THEN sofar
    ELSE XwriteTaken(i + 1, Min2(xf.count, sofar + xf.answers[i]))

\* C39: xwrite returns count only after the write calls have accepted all
\* count bytes in order, each call resuming at the offset reached; the file
\* then holds the old content followed by the first count bytes of the
\* buffer.  When a write answers <= 0, xwrite stops at that call and returns
\* that answer, and the file holds the bytes accepted before, in order.  So
\* the result equals count if and only if every byte was written.
C39_XwriteAllOrError ==
    pc = "xwrite_ret" =>
        LET taken == XwriteTaken(1, 0) IN
        /\ inodes[1] = xf.before \o SubSeq(audiobuf, 1, taken)
        /\ (xf.ret = xf.count) <=> (taken = xf.count)
        /\ xf.ret # xf.count =>
              /\ xf.calls >= 1
              /\ xf.answers[xf.calls] <= 0
              /\ xf.ret = xf.answers[xf.calls]
        /\ \A i \in 1..(xf.calls - 1) : xf.answers[i] > 0
        /\ xf.ret = xf.count /\ xf.calls >= 1 => xf.answers[xf.calls] > 0

\* C39 witness: a short write, a resumed write, and then an error after part
\* of the buffer was written
C39_Witness ==
    /\ pc = "xwrite_ret"
    /\ xf.calls = 3
    /\ xf.ret < 0
    /\ Len(inodes[1]) = Len(xf.before) + 2
    /\ xf.count > 2

\* the state that xrun() queried is one it recovers from: XRUN without
\* fatal-errors, or DRAINING on a capture stream
XrunRecoverable ==
    /\ hist.rec.statusok
    /\ \/ hist.rec.state = "XRUN" /\ ~opt.fatal_errors
       \/ hist.rec.state = "DRAINING" /\ opt.stream = "CAPTURE"

\* C36: xrun returns to the transfer loop only when the queried state is
\* XRUN with fatal-errors off, or DRAINING in capture mode, and the re-prime
\* succeeded; for every other queried state and for a failed re-prime the
\* process has terminated with failure, without the loop retrying.
C36_XrunReturnsOnlyRecovered ==
    hist.rec.what = "xrun" =>
        /\ (pc # "exited") => (XrunRecoverable /\ hist.rec.prepareok)
        /\ ~(XrunRecoverable /\ hist.rec.prepareok) =>
              /\ pc = "exited"
              /\ exit_code = EXIT_FAILURE
              /\ Counters(xf) = hist.rec.before
        /\ ~XrunRecoverable => hist.rec.prepares = 0

\* C36 witness: xrun ended the process on a state it does not recognise
\* (playback, the device reports SUSPENDED after -EPIPE)
C36_Witness ==
    /\ hist.rec.what = "xrun"
    /\ hist.rec.statusok
    /\ hist.rec.state = "SUSPENDED"
    /\ opt.stream = "PLAYBACK"
    /\ ~opt.fatal_errors
    /\ pc = "exited"
    /\ exit_code = EXIT_FAILURE

\* the files opened so far are one more than the rotation requests that a
\* chunk-loop check observed with bytes left to capture and no abort
OneFilePerObservedRequest == Len(hist.opened) = 1 + hist.rot.observed

\* a file of the session is open and its chunk loop runs
InFile == pc \in {"cap_loop", "pcm_top", "pcm_io", "pcm_ret", "suspend"}

\* C37 (as stated): in capture to a named file the number of files opened
\* never exceeds 1 plus the number of rotation requests delivered, and every
\* request delivered to the running chunk loop while the flag is clear has
\* caused a rotation of its own when the session ends.
C37_EveryFreshRequestRotates ==
    NamedCapture =>
        /\ Len(hist.opened) <= 1 + hist.nrecycle
        /\ (pc = "exited" /\ exit_code = EXIT_SUCCESS) =>
              Len(hist.opened) >= 1 + hist.rot.inloop

\* C37 (amended): in capture to a named file the number of files opened
\* never exceeds 1 plus the number of rotation requests delivered.  The flag
\* is set exactly while a request that was delivered with the flag clear
\* has not been cleared by the end of a file (requests delivered while one
\* is pending are coalesced with it, and a chunk is only read with the old
\* request cleared).  A pending request causes exactly one rotation when the
\* next chunk-loop check finds bytes left to capture and no abort; a
\* request that the check meets with nothing left to capture is cleared
\* without a rotation.
C37_RotationPerObservedRequest ==
    NamedCapture =>
        /\ Len(hist.opened) <= 1 + hist.nrecycle
        /\ recycle_capture_file <=> (hist.rot.fresh > hist.rot.cleared)
        /\ hist.rot.fresh <= hist.rot.cleared + 1
        /\ hist.rot.observed <= hist.rot.cleared + 1
        /\ hist.rot.observed <= hist.rot.fresh
        /\ InFile => OneFilePerObservedRequest
        /\ (pc = "exited" /\ exit_code = EXIT_SUCCESS) =>
              OneFilePerObservedRequest

\* C37 witness: two requests, the second delivered while the first was
\* pending, made one rotation and the session ended normally with two files
C37_Witness ==
    /\ NamedCapture
    /\ hist.nrecycle = 2
    /\ hist.rot.fresh = 1
    /\ hist.rot.inloop = 1
    /\ hist.rot.observed = 1
    /\ Len(hist.opened) = 2
    /\ Len(inodes[1]) > 0
    /\ pc = "exited" /\ exit_code = EXIT_SUCCESS

(***************************************************************************)
(* Capture to one named file with a sample limit, with one, two and three  *)
(* channels (frames of 1, 2 and 3 bytes), with rotation requests and       *)
(* without faults or abort signals.                                        *)
(***************************************************************************)
BudgetOptions ==
    {[BaseOptions EXCEPT !.stream = "CAPTURE", !.channels = ch,
                         !.sampleslimit = sa, !.name = REC_WAV,
                         !.faults = 0, !.aborts = FALSE,
                         !.recycles = MaxRecycle] :
        ch \in 1..3, sa \in 1..MaxLimit}

InitBudget == InitWith(BudgetOptions)

NextBudget ==
    \/ Capture
    \/ CaptureOpen
    \/ CaptureLoop
    \/ CaptureAfter
    \/ CaptureClose
    \/ PcmTop
    \/ PcmIo
    \/ SigRecycle
    \/ MainEnd

SpecBudget == InitBudget /\ [][NextBudget]_vars

\* the bytes in the files 1 .. n
RECURSIVE BytesWritten(_)
BytesWritten(n) == IF n = 0 THEN 0 ELSE Len(inodes[n]) + BytesWritten(n - 1)

\* the limit of the session in bytes
LimitB == calc_count(opt, LLONG_MAX)

\* a limited capture to a named file has ended normally, without abort
LimitedCaptureDone ==
    /\ NamedCapture
    /\ opt.timelimit # 0 \/ opt.sampleslimit # 0
    /\ pc = "exited"
    /\ exit_code = EXIT_SUCCESS
    /\ ~in_aborting

\* C35: a capture with a limit of B bytes that ended without abort has
\* written B bytes in total across all its files, B + 1 when B is odd, for
\* any number of rotation requests; every byte written came from the device
\* (no padding), and the device delivered whole chunks.
C35_WritesTheLimit ==
    LimitedCaptureDone =>
        /\ BytesWritten(Len(inodes)) = LimitB + (LimitB % 2)
        /\ \A i \in 1..Len(inodes) : \A j \in 1..Len(inodes[i]) :
              inodes[i][j] \in 1..devpos
        /\ devpos % params.chunk_bytes = 0

\* the positions <<file, offset>> of the bytes in the output files
FileBytes == {<<i, j>> : i \in 1..Len(inodes), j \in 1..MaxCapture}
                \cap {ij \in (1..Len(inodes)) \X (1..MaxCapture) :
                        ij[2] <= Len(inodes[ij[1]])}

\* C32: in capture mode every byte written to an output file was received
\* from the device during the request of the chunk being written: each is
\* a byte of the device stream, and no byte of the stream is written twice
\* (a byte left in the buffer by an earlier chunk) or is a byte the device
\* never filled, also when the abort flag stopped pcm_read or pcm_readv in
\* the middle of a chunk.
C32_WritesOnlyReceived ==
    opt.stream = "CAPTURE" =>
        /\ \A ij \in FileBytes : inodes[ij[1]][ij[2]] \in 1..devpos
        /\ \A ij \in FileBytes, kl \in FileBytes :
              ij # kl => inodes[ij[1]][ij[2]] # inodes[kl[1]][kl[2]]

(***************************************************************************)
(* Capture with rotation requests to a counter-based name, to a template   *)
(* with %v and to a template without %v, on a clock that may or may not    *)
(* advance between two rotations.                                          *)
(***************************************************************************)
\* a template that names the file by the second of the clock alone
PAT_SEC == <<"r", "%", "S">>

SameSecondOptions ==
    {[BaseOptions EXCEPT !.stream = "CAPTURE", !.use_strftime = us,
                         !.sampleslimit = sa, !.name = nm, !.faults = 0,
                         !.aborts = FALSE, !.recycles = MaxRotations] :
        us \in BOOLEAN, sa \in {0, MaxLimit},
        nm \in {REC_WAV, PAT_SEC_V, PAT_SEC}}

InitSameSecond ==
    InitWith({o \in SameSecondOptions :
                o.use_strftime <=> o.name \in {PAT_SEC_V, PAT_SEC}})

NextSameSecond ==
    \/ Capture
    \/ CaptureOpen
    \/ CaptureLoop
    \/ CaptureAfter
    \/ CaptureClose
    \/ PcmTop
    \/ PcmIo
    \/ SigRecycle
    \/ Tick
    \/ MainEnd

SpecSameSecond == InitSameSecond /\ [][NextSameSecond]_vars

\* C34: within one capture session opening the next target never removes,
\* truncates or overwrites a file an earlier open of the session wrote: any
\* two files opened have distinct paths and every file opened is still in
\* the directory with the bytes written to it, in counter-based mode and
\* with a template, also for two rotations within one clock second with a
\* template that has no %v.
C34_OpensKeepEarlierFiles ==
    NamedCapture =>
        /\ \A i, j \in 1..Len(hist.opened) :
              i # j => hist.opened[i] # hist.opened[j]
        /\ \A j \in 1..Len(hist.opened) : \E e \in fs : e[2] = j

(***************************************************************************)
(* Interactive runs (-i) over one or several file arguments: playback of   *)
(* files and capture to files, with abort signals.                         *)
(***************************************************************************)
TerminalOptions ==
    {[BaseOptions EXCEPT !.stream = st, !.interactive = TRUE,
                         !.files = n, !.srclen = <<sl>>,
                         !.sampleslimit = 1, !.faults = 0,
                         !.recycles = 0] :
        st \in {"PLAYBACK", "CAPTURE"}, n \in 1..MaxFiles, sl \in 0..1}

InitTerminal == InitWith(TerminalOptions)

NextTerminal ==
    \/ Playback
    \/ PlaybackLoop
    \/ PlaybackFill
    \/ PlaybackAfter
    \/ PlaybackEnd
    \/ PlaybackDrain
    \/ Capture
    \/ CaptureOpen
    \/ CaptureLoop
    \/ CaptureAfter
    \/ CaptureClose
    \/ PcmTop
    \/ PcmIo
    \/ SigAbort
    \/ MainNext
    \/ MainEnd

SpecTerminal == InitTerminal /\ [][NextTerminal]_vars

\* C33: in interactive mode, when the process exits through prg_exit the
\* terminal is back in the mode it had before the first call of init_stdin
\* (canonical), for any number of files played or captured in one run.
C33_TerminalRestored ==
    (/\ opt.interactive
     /\ pc = "exited"
     /\ proc.ended = "prg_exit") => proc.icanon

(***************************************************************************)
(* The decoding of compute_max_peak() alone: the sample words of a chunk   *)
(* of bytes, in either byte order, turned into signed values by the        *)
(* silence mask of the format.                                             *)
(***************************************************************************)
\* most bytes in a chunk that is decoded
MaxDecode == 4

\* byte values at the ends and in the middle of the range
EdgeBytes == {0, 1, 127, 128, 255}

\* the big-endian sample word of bps bytes after byte offset at
\* (be16toh, be32toh, "(valp[0]<<16) | (valp[1]<<8) | valp[2]")
be_word(buf, at, bps) ==
    le_word([j \in 1..bps |-> buf[at + bps + 1 - j]], 0, bps)

\* a decoding that keeps the magnitude of a sample only
sample_value_magnitude(word, f) ==
    abs(xor_mask(word, f.physical_width, silence_bit(f)))

\* "val = word ^ mask" (and the sign correction of the 24-bit case): the
\* signed value of a sample word before abs() is taken
sample_value(word, f) == xor_mask(word, f.physical_width, silence_bit(f))

\* the signed values of the samples of a chunk of bytes
decode_chunk(buf, f, little) ==
    LET bps == f.physical_width \div 8 IN
    [k \in 1..(Len(buf) \div bps) |->
        sample_value(IF little THEN le_word(buf, (k - 1) * bps, bps)
                     ELSE be_word(buf, (k - 1) * bps, bps), f)]

DecodeOptions ==
    {[BaseOptions EXCEPT !.format = f, !.vumeter = "MONO",
                         !.faults = 0, !.recycles = 0] :
        f \in PeakFormats}

InitDecode == InitPure(DecodeOptions, "decode")

\* one chunk of whole samples is decoded; xf keeps the byte order and the
\* values
DecodeChunk ==
    /\ pc = "decode"
    /\ \E n \in 1..(MaxDecode \div (opt.format.physical_width \div 8)),
          little \in BOOLEAN :
        \E buf \in [1..(n * (opt.format.physical_width \div 8))
                       -> EdgeBytes] :
            /\ audiobuf' = buf
            /\ xf' = [fn |-> "decode", little |-> little,
                      vals |-> decode_chunk(buf, opt.format, little)]
    /\ pc' = "decoded"
    /\ UNCHANGED <<exit_code, opt, mon, vu, paused, sigvars, handle, proc,
                   params, srcpos, pb, cap, dev, devpos, filevars, hist>>

NextDecode == DecodeChunk

SpecDecode == InitDecode /\ [][NextDecode]_vars

\* byte j (from 0, least significant first) of the two's complement word
WordByte(word, j) == (word \div (256^j)) % 256

\* the encoding of signed values at a width, byte order and silence
\* pattern: the mask is applied again and the word is laid out in bytes
EncodeChunk(vals, f, little) ==
    LET bps == f.physical_width \div 8 IN
    [i \in 1..(Len(vals) * bps) |->
        LET k == ((i - 1) \div bps) + 1
            j == (i - 1) % bps
            word == xor_mask(vals[k], f.physical_width, silence_bit(f))
        IN  WordByte(word, IF little THEN j ELSE (bps - 1) - j)]

AbortLiveOptions ==
    {[BaseOptions EXCEPT !.stream = st, !.srclen = <<MaxLen>>,
                         !.sampleslimit = MaxLimit, !.interactive = TRUE,
                         !.keys = 2, !.faults = 1, !.recycles = 0] :
        st \in {"PLAYBACK", "CAPTURE"}}

InitAbortLive == InitWith(AbortLiveOptions)

\* the steps the program takes without waiting for the user
ProgramStep ==
    \/ Playback
    \/ PlaybackLoop
    \/ PlaybackFill
    \/ PlaybackAfter
    \/ PlaybackEnd
    \/ PlaybackDrain
    \/ Capture
    \/ CaptureOpen
    \/ CaptureLoop
    \/ CaptureAfter
    \/ CaptureClose
    \/ PcmTop
    \/ CheckStdin
    \/ PcmIo
    \/ Suspend
    \/ MainEnd

NextAbortLive ==
    \/ ProgramStep
    \/ Paused
    \/ SigAbort

SpecAbortLive ==
    InitAbortLive /\ [][NextAbortLive]_vars /\ WF_vars(ProgramStep)

\* C38: after the abort flag is set the process eventually terminates: no
\* loop (transfer loop, readiness wait, resume retry loop, keystroke wait
\* of the interactive pause) keeps running or waiting without observing the
\* flag.
C38_AbortTerminates == in_aborting ~> (pc = "exited")
====
